---- MODULE Spec2Model ----
(***************************************************************************)
(* Versioned synchronisation and history engine of FileSyncer:             *)
(* HistoryStorage (index, snapshot blobs, retention pruning),              *)
(* HistoryManager (recordBefore / recordAfter / restoreFromHistory),       *)
(* SyncManager (single-file and bulk transfers), SyncScheduler,            *)
(* SFTPManager, RollbackManager and ProfileManager.                        *)
(* Spec is the history store under transfers of any paths, SyncSpec the    *)
(* operations of SyncManager, SchedSpec the debounce timers, ConnSpec the  *)
(* connections of SFTPManager, StoreSpec the store on a file system that   *)
(* can fail, OverlapSpec the store under two transfers at a time, RollSpec *)
(* the rollbacks of RollbackManager, ProfSpec the profiles and the active  *)
(* profile of ProfileManager.                                              *)
(***************************************************************************)
EXTENDS Integers, Sequences, FiniteSets

(***************************************************************************)
(* Bounds of the model.                                                    *)
(***************************************************************************)
MaxIds == 2            \* recordBefore calls (generated entry ids) per run
MaxAdvances == 2       \* clock advances per run
MaxEdits == 1          \* edits and deletions of local files by the user per run
MaxVersionsCfg == 1    \* the configured maxHistoryVersions
MaxAgeDaysCfg == 1     \* the configured historyMaxAgeDays
MaxOps == 1            \* operations of SyncManager per run
MaxSaves == 3          \* save events seen by SyncScheduler per run
MaxCancels == 1        \* calls of cancelAllScheduledUploads / dispose per run
MaxConnCalls == 2      \* calls of SFTPManager by each of its callers per run
MaxAdds == 4           \* transfers per run of OverlapSpec
MaxStoreAdds == 3      \* transfers per run of StoreSpec
MaxClears == 1         \* runs of the command clearHistory per run of StoreSpec
MaxFaults == 1         \* calls of the file system that fail per run
MaxRollbacks == 1      \* calls of rollbackFile / rollbackBatch per run
MaxBatch == 2          \* paths given to rollbackBatch
MaxProfileCalls == 3   \* calls of ProfileManager per run

(***************************************************************************)
(* Program constants.                                                      *)
(***************************************************************************)
SecondMs == 1000
DayMs == 24 * 60 * 60 * 1000

(***************************************************************************)
(* Input domains.  A path is a sequence of segments, a segment a sequence  *)
(* of characters; file contents are byte sequences.                        *)
(***************************************************************************)
PathA  == << <<"d", "1">>, <<"a">> >>
PathA2 == << <<"d", "2">>, <<"a">> >>
LocalPaths == {PathA, PathA2}
RemoteOf(l) == << <<"r">> >> \o l
Profiles == {"p1"}
Operations == {"upload", "download"}
Contents == {<<1>>, <<2, 2>>}
Deltas == {1, SecondMs, DayMs}

VARIABLES
  now,             \* Date.now(), in milliseconds
  cfg,             \* workspace configuration 'filesyncer'
  activeProfile,   \* name of the active profile
  localFs,         \* local files: path -> content, for the paths that exist
  histFs,          \* history directory: version dir -> listing of blobs
  index,           \* HistoryStorage.index.entries
  pendingBackups,  \* HistoryManager.pendingBackups: key -> entry
  xfer,            \* the transfer in flight of SyncManager
  nextId,          \* entry ids generated so far + 1
  advances,        \* number of clock advances so far
  edits,           \* number of user edits and deletions so far
  snaps,           \* history variable: id -> the snapshot taken for that entry
  outcome,         \* history variable: id -> outcome of that transfer's transport call
  last,            \* history variable: the operation that ran last
  workspaceFolder, \* whether vscode.workspace.workspaceFolders[0] is there
  exclude,         \* the exclude patterns of the active profile
  remoteFs,        \* remote files: path -> content, for the paths that exist
  sync,            \* the operation of SyncManager in progress, with its SyncResult
  log,             \* history variable: what the operation in progress has done
  ops,             \* number of SyncManager operations started so far
  isAutoUploadEnabled, \* SyncScheduler.isAutoUploadEnabled
  debounceTimers,  \* SyncScheduler.debounceTimers: path -> timer handle
  timers,          \* the timers set and neither fired nor cleared: handle -> path
  inflight,        \* timer callbacks awaiting their uploadFile: handle -> path
  sched,           \* history variable: counters of the scheduler's events
  connections,     \* SFTPManager.connections: profile name -> ConnectionInfo
  clients,         \* the SFTPClient objects made so far: client -> its connected flag
  callers,         \* the calls of SFTPManager in progress
  roll,            \* the operation of RollbackManager in progress
  persisted,       \* index.json as loadIndex would read it
  storage,         \* whether HistoryStorage.index holds an entries array
  adds,            \* the calls of HistoryStorage.addEntry in progress
  prof             \* ProfileManager.config, the settings, and the call in progress

\* the state of HistoryManager, HistoryStorage and their environment
histVars == <<now, cfg, activeProfile, localFs, histFs, index, pendingBackups,
              xfer, nextId, advances, edits, snaps, outcome, last>>
\* the further state of SyncManager
syncVars == <<workspaceFolder, exclude, remoteFs, sync, log, ops>>
\* the state of SyncScheduler
schedVars == <<isAutoUploadEnabled, debounceTimers, timers, inflight, sched>>

\* the state of SFTPManager
connVars == <<connections, clients, callers>>
\* the state of RollbackManager
rollVars == <<roll>>
\* the further state of HistoryStorage
storeVars == <<persisted, storage, adds>>
\* the state of ProfileManager
profVars == <<prof>>

vars == <<histVars, syncVars, schedVars, connVars, rollVars, profVars, profVars, storeVars>>

(***************************************************************************)
(* Sequence helpers.                                                       *)
(***************************************************************************)
Range(s) == {s[i] : i \in 1..Len(s)}

\* String.prototype.startsWith
StartsWith(s, prefix) ==
  /\ Len(prefix) <= Len(s)
  /\ \A i \in 1..Len(prefix) : s[i] = prefix[i]

\* String.prototype.includes
Includes(s, sub) ==
  \E k \in 0..(Len(s) - Len(sub)) : \A i \in 1..Len(sub) : s[k + i] = sub[i]

\* String(n) for a natural number
DigitChars == <<"0", "1", "2", "3", "4", "5", "6", "7", "8", "9">>
RECURSIVE NumToString(_)
NumToString(n) ==
  IF n < 10 THEN <<DigitChars[n + 1]>>
  ELSE NumToString(n \div 10) \o <<DigitChars[(n % 10) + 1]>>

\* path.basename
Basename(p) == p[Len(p)]

\* Array.prototype.sort((a, b) => b.timestamp - a.timestamp): stable, newest first
RECURSIVE SortNewestFirst(_)
SortNewestFirst(s) ==
  IF Len(s) <= 1 THEN s
  ELSE LET rest == SortNewestFirst(SubSeq(s, 1, Len(s) - 1))
           x    == s[Len(s)]
           keep == SelectSeq(rest, LAMBDA e : e.timestamp >= x.timestamp)
           tail == SelectSeq(rest, LAMBDA e : e.timestamp < x.timestamp)
       IN  keep \o <<x>> \o tail

\* Array.prototype.slice(n)
Slice(s, n) == IF n >= Len(s) THEN <<>> ELSE SubSeq(s, n + 1, Len(s))

(***************************************************************************)
(* HistoryStorage.                                                         *)
(***************************************************************************)
\* index.json: what JSON.parse makes of it; entries is the array it holds when
\* it is an index ("ok"), a file that is not there is read as the empty index
IndexFile(state, entries) == [state |-> state, entries |-> entries]

\* saveIndex writing the index it was constructed with
saveIndexStale(idx) == IndexFile("ok", <<>>)

\* saveIndex: JSON.stringify(this.index) written to index.json
saveIndex(idx) == IndexFile("ok", idx)

\* index.json when a HistoryStorage is constructed: an index, a file that
\* cannot be read, one that is not JSON, and JSON that is not an index
IndexFiles == {IndexFile("ok", <<>>), IndexFile("unreadable", <<>>),
               IndexFile("unparsable", <<>>), IndexFile("other", <<>>)}

\* loadIndex without its catch: the constructor of HistoryStorage throws
loadIndexNoCatch(file) ==
  [storage |-> IF file.state = "ok" THEN "ready"
               ELSE IF file.state = "other" THEN "malformed" ELSE "failed",
   entries |-> IF file.state = "ok" THEN file.entries ELSE <<>>]

\* loadIndex: what JSON.parse returns, { entries: [] } when reading or parsing
\* throws; storage tells whether the value has an entries array
loadIndex(file) ==
  [storage |-> IF file.state = "other" THEN "malformed" ELSE "ready",
   entries |-> IF file.state = "ok" THEN file.entries ELSE <<>>]

\* md5 digest and size of a file
computeHash(content) == content
FileSize(content) == Len(content)

\* the version directory of an entry: ISO timestamp cut to seconds + profile
getVersionDir(entry) == <<entry.timestamp \div SecondMs, entry.profileName>>

\* the version ordinal of a new snapshot: existingEntries.length + 1
\* the ordinal counting the entries of the path whatever their operation
VersionOrdinalAnyOperation(idx, localPath, entry) ==
  Len(SelectSeq(idx, LAMBDA e :
      /\ e.localPath = localPath
      /\ e.profileName = entry.profileName)) + 1

VersionOrdinal(idx, localPath, entry) ==
  Len(SelectSeq(idx, LAMBDA e :
      /\ e.localPath = localPath
      /\ e.operation = entry.operation
      /\ e.profileName = entry.profileName)) + 1

generateVersionSuffix(idx, localPath, entry) ==
  NumToString(VersionOrdinal(idx, localPath, entry))

BackupName(idx, localPath, entry) ==
  Basename(localPath) \o <<"_", "v">> \o generateVersionSuffix(idx, localPath, entry)

\* files.find(f => f.startsWith(fileName) && f.includes('_v')): position of the
\* first match in the listing, 0 when there is none
FindBackup(listing, fileName) ==
  LET hits == {i \in 1..Len(listing) :
                 /\ StartsWith(listing[i].name, fileName)
                 /\ Includes(listing[i].name, <<"_", "v">>)}
  IN  IF hits = {} THEN 0 ELSE CHOOSE i \in hits : \A j \in hits : i <= j

RemoveAt(s, i) == SubSeq(s, 1, i - 1) \o SubSeq(s, i + 1, Len(s))

\* fs.copyFileSync into a version directory: an existing file of that name is
\* overwritten in place, a new file appears at position pos of the listing
WriteBlob(listing, pos, name, content) ==
  IF \E i \in 1..Len(listing) : listing[i].name = name
  THEN [i \in 1..Len(listing) |->
          IF listing[i].name = name THEN [name |-> name, content |-> content]
          ELSE listing[i]]
  ELSE SubSeq(listing, 1, pos - 1) \o <<[name |-> name, content |-> content]>>
         \o SubSeq(listing, pos, Len(listing))

ListingOf(fs, dir) == IF dir \in DOMAIN fs THEN fs[dir] ELSE <<>>

\* the history directory after backupFile copied content to name in dir
backupFile(fs, dir, pos, name, content) ==
  [d \in (DOMAIN fs) \cup {dir} |->
     IF d = dir THEN WriteBlob(ListingOf(fs, dir), pos, name, content) ELSE fs[d]]

\* the unlink / rmdir part of deleteEntry: readdirSync throws when the
\* directory is gone, and the error is swallowed
DeleteBackup(fs, entry) ==
  LET dir == getVersionDir(entry)
  IN  IF dir \notin DOMAIN fs THEN fs
      ELSE LET i == FindBackup(fs[dir], Basename(entry.localPath))
               remaining == IF i = 0 THEN fs[dir] ELSE RemoveAt(fs[dir], i)
           IN  IF remaining = <<>>
               THEN [d \in (DOMAIN fs) \ {dir} |-> fs[d]]
               ELSE [fs EXCEPT ![dir] = remaining]

\* the calls of the file system that can throw in deleteEntry: "unlink" stands
\* for readdirSync or unlinkSync throwing (nothing is removed), "rmdir" for the
\* second readdirSync or rmdirSync throwing (the blob is removed, the directory stays)
DeleteFaults == {"unlink", "rmdir"}

\* the try block of deleteEntry under a fault of the file system ("none": no fault)
TryDeleteBackup(fs, entry, fault) ==
  LET dir == getVersionDir(entry)
  IN  IF fault = "none" \/ dir \notin DOMAIN fs THEN DeleteBackup(fs, entry)
      ELSE IF fault = "unlink" THEN fs
      ELSE LET i == FindBackup(fs[dir], Basename(entry.localPath))
           IN  IF i = 0 THEN fs ELSE [fs EXCEPT ![dir] = RemoveAt(fs[dir], i)]

\* deleteEntry letting the error of the file system out
deleteEntryNoCatch(st, entry, fault) ==
  IF fault = "none"
  THEN [index |-> SelectSeq(st.index, LAMBDA e : e.id # entry.id),
        fs    |-> DeleteBackup(st.fs, entry)]
  ELSE st

\* deleteEntry on the store st = [index, fs] under a fault of the file system
deleteEntryUnder(st, entry, fault) ==
  [index |-> SelectSeq(st.index, LAMBDA e : e.id # entry.id),
   fs    |-> TryDeleteBackup(st.fs, entry, fault)]

\* deleteEntry on the store st = [index, fs], the file system working
deleteEntry(st, entry) == deleteEntryUnder(st, entry, "none")

\* the local paths of the index in order of first appearance (Map insertion order)
RECURSIVE GroupKeys(_)
GroupKeys(idx) ==
  IF idx = <<>> THEN <<>>
  ELSE LET init == GroupKeys(SubSeq(idx, 1, Len(idx) - 1))
           p    == idx[Len(idx)].localPath
       IN  IF p \in Range(init) THEN init ELSE Append(init, p)

\* GroupToDelete with the count cutoff off by one
GroupToDeleteOffByOne(idx, localPath, maxVersions, maxAge, t) ==
  LET entries == SortNewestFirst(SelectSeq(idx, LAMBDA e : e.localPath = localPath))
      overCount == IF Len(entries) > maxVersions + 1
                   THEN Slice(entries, maxVersions + 1) ELSE <<>>
      overAge == SelectSeq(entries, LAMBDA e : t - e.timestamp > maxAge)
  IN  overCount \o overAge

\* what one group contributes to entriesToDelete
GroupToDelete(idx, localPath, maxVersions, maxAge, t) ==
  LET entries == SortNewestFirst(SelectSeq(idx, LAMBDA e : e.localPath = localPath))
      overCount == IF Len(entries) > maxVersions THEN Slice(entries, maxVersions) ELSE <<>>
      overAge == SelectSeq(entries, LAMBDA e : t - e.timestamp > maxAge)
  IN  overCount \o overAge

RECURSIVE EntriesToDelete(_, _, _, _, _)
EntriesToDelete(idx, keys, maxVersions, maxAge, t) ==
  IF keys = <<>> THEN <<>>
  ELSE GroupToDelete(idx, keys[1], maxVersions, maxAge, t)
         \o EntriesToDelete(idx, Tail(keys), maxVersions, maxAge, t)

RECURSIVE DeleteAll(_, _)
DeleteAll(st, entries) ==
  IF entries = <<>> THEN st
  ELSE DeleteAll(deleteEntry(st, entries[1]), Tail(entries))

cleanupOldEntries(st, config, t) ==
  LET maxVersions == config.maxHistoryVersions
      maxAge == config.historyMaxAgeDays * DayMs
  IN  DeleteAll(st, EntriesToDelete(st.index, GroupKeys(st.index), maxVersions, maxAge, t))

addEntry(st, entry, config, t) ==
  cleanupOldEntries([st EXCEPT !.index = Append(st.index, entry)], config, t)

\* getHistoryForFile without its sort
getHistoryForFileUnsorted(idx, localPath) ==
  SelectSeq(idx, LAMBDA e : e.localPath = localPath)

getHistoryForFile(idx, localPath) ==
  SortNewestFirst(SelectSeq(idx, LAMBDA e : e.localPath = localPath))

\* position of the blob getBackupPath resolves for entry, 0 for none;
\* readdirSync throws when the version directory does not exist
getBackupPath(fs, entry) ==
  IF getVersionDir(entry) \notin DOMAIN fs THEN 0
  ELSE FindBackup(fs[getVersionDir(entry)], Basename(entry.localPath))

(***************************************************************************)
(* HistoryManager.                                                         *)
(***************************************************************************)
\* `${localPath}|${remotePath}|${operation}`
getBackupKey(localPath, remotePath, operation) == <<localPath, remotePath, operation>>

\* restoreFromHistory moving the blob (rename) instead of copying it
restoreFromHistoryMove(lfs, fs, entry) ==
  LET i == getBackupPath(fs, entry)
      dir == getVersionDir(entry)
  IN  IF i = 0
      THEN [ok |-> FALSE, localFs |-> lfs, histFs |-> fs]
      ELSE [ok |-> TRUE,
            localFs |-> [p \in (DOMAIN lfs) \cup {entry.localPath} |->
                           IF p = entry.localPath THEN fs[dir][i].content ELSE lfs[p]],
            histFs |-> [fs EXCEPT ![dir] = RemoveAt(fs[dir], i)]]

\* the effect of restoreFromHistory(entry) on the local files and the history
\* directory; ok = FALSE when it throws
restoreFromHistory(lfs, fs, entry) ==
  LET i == getBackupPath(fs, entry)
  IN  IF i = 0
      THEN [ok |-> FALSE, localFs |-> lfs, histFs |-> fs]
      ELSE [ok |-> TRUE,
            localFs |-> [p \in (DOMAIN lfs) \cup {entry.localPath} |->
                           IF p = entry.localPath
                           THEN fs[getVersionDir(entry)][i].content
                           ELSE lfs[p]],
            histFs |-> fs]

\* the record kept in last: the operation, the entry it was about, whether it
\* went through, the transfer it belonged to, and a count (entries pruned by a
\* commit; consecutive restores of the same entry)
Last(op, id, ok, xid, n) == [op |-> op, id |-> id, ok |-> ok, xid |-> xid, n |-> n]
Other == Last("other", 0, TRUE, 0, 0)

Idle == [pc |-> "idle", op |-> "none", local |-> <<>>, remote |-> <<>>, id |-> 0]

(***************************************************************************)
(* SyncManager and SyncScheduler: the values of their state at rest.       *)
(***************************************************************************)
NoProfile == "none"

\* SyncResult; an error is the file it names (<<>> for none) and its message
SyncResult(success, filesProcessed, errors) ==
  [success |-> success, filesProcessed |-> filesProcessed, errors |-> errors]

NoSync == [pc |-> "idle", kind |-> "none", op |-> "none", files |-> <<>>, i |-> 0,
           base |-> <<>>, local |-> <<>>, remote |-> <<>>, id |-> 0, token |-> FALSE,
           result |-> SyncResult(TRUE, 0, <<>>)]

\* what the operation in progress has done, and the history it started from
NewLog(idx, fs, pending) ==
  [events |-> <<>>, index |-> idx, histFs |-> fs, pendingBackups |-> pending]

SyncAtRest ==
  /\ workspaceFolder = TRUE
  /\ exclude = <<>>
  /\ remoteFs = <<>>
  /\ sync = NoSync
  /\ log = NewLog(<<>>, <<>>, <<>>)
  /\ ops = 0

\* counters of the scheduler's events, the uploads started, and the path the
\* last event was about (<<>> for none)
NoSched == [saves |-> 0, set |-> 0, cancels |-> 0, started |-> <<>>, path |-> <<>>,
            lastSave |-> <<>>]

SchedAtRest ==
  /\ isAutoUploadEnabled = FALSE
  /\ debounceTimers = <<>>
  /\ timers = <<>>
  /\ inflight = <<>>
  /\ sched = NoSched

\* HistoryManager and HistoryStorage in a fresh workspace
HistAtRest ==
  /\ now = 0
  /\ cfg = [maxHistoryVersions |-> MaxVersionsCfg, historyMaxAgeDays |-> MaxAgeDaysCfg]
  /\ histFs = <<>>
  /\ index = <<>>
  /\ pendingBackups = <<>>
  /\ xfer = Idle
  /\ nextId = 1
  /\ advances = 0
  /\ edits = 0
  /\ snaps = <<>>
  /\ outcome = <<>>
  /\ last = Other

\* SFTPManager, RollbackManager and HistoryStorage: their state at rest
ConnAtRest ==
  /\ connections = <<>>
  /\ clients = <<>>
  /\ callers = <<>>

NoRoll == [pc |-> "idle", kind |-> "none", paths |-> <<>>, i |-> 0, history |-> <<>>,
           selected |-> 0, restored |-> FALSE, success |-> 0, failed |-> 0, errors |-> <<>>,
           log |-> <<>>, uploads |-> <<>>, shown |-> "", threw |-> FALSE, count |-> 0]

RollAtRest == roll = NoRoll

\* ProfileConfig: the profiles, each its name and the host it connects to
ProfileConfig(profiles, active) ==
  [profiles |-> profiles, activeProfile |-> active]

NoProfCall == [pc |-> "idle", op |-> "none", name |-> "", result |-> "none",
               before |-> ProfileConfig(<<>>, "")]

\* ProfileManager over the settings `settings`, no call made
ProfLoaded(settings) ==
  [config |-> settings, settings |-> settings, changed |-> FALSE, call |-> NoProfCall,
   calls |-> 0]

ProfAtRest == prof = ProfLoaded(ProfileConfig(<<>>, ""))

StoreAtRest ==
  /\ persisted = IndexFile("ok", <<>>)
  /\ storage = "ready"
  /\ adds = <<>>

Init ==
  /\ now = 0
  /\ cfg = [maxHistoryVersions |-> MaxVersionsCfg, historyMaxAgeDays |-> MaxAgeDaysCfg]
  /\ activeProfile \in Profiles
  /\ localFs = [p \in LocalPaths |-> <<1>>]
  /\ histFs = <<>>
  /\ index = <<>>
  /\ pendingBackups = <<>>
  /\ xfer = Idle
  /\ nextId = 1
  /\ advances = 0
  /\ edits = 0
  /\ snaps = <<>>
  /\ outcome = <<>>
  /\ last = Other
  /\ SyncAtRest
  /\ SchedAtRest
  /\ ConnAtRest
  /\ RollAtRest
  /\ ProfAtRest
  /\ StoreAtRest

\* HistoryManager.recordBeforeUpload / recordBeforeDownload: the entry gets the
\* id nextId; without an active profile nothing is done
recordBefore(op, localPath, remotePath) ==
  LET entry == [id |-> nextId, timestamp |-> now, operation |-> op,
                localPath |-> localPath, remotePath |-> remotePath,
                profileName |-> activeProfile, fileSize |-> 0, hash |-> <<>>]
      dir == getVersionDir(entry)
      name == BackupName(index, localPath, entry)
      key == getBackupKey(localPath, remotePath, op)
  IN  IF activeProfile \in Profiles /\ localPath \in DOMAIN localFs
      THEN \E pos \in 1..(Len(ListingOf(histFs, dir)) + 1) :
             LET content == localFs[localPath]
                 saved == [entry EXCEPT !.hash = computeHash(content),
                                        !.fileSize = FileSize(content)]
             IN  /\ histFs' = backupFile(histFs, dir, pos, name, content)
                 /\ pendingBackups' =
                      [k \in (DOMAIN pendingBackups) \cup {key} |->
                         IF k = key THEN saved ELSE pendingBackups[k]]
                 /\ snaps' = [i \in (DOMAIN snaps) \cup {nextId} |->
                                IF i = nextId
                                THEN [dir |-> dir, name |-> name, content |-> content,
                                      localPath |-> localPath, operation |-> op,
                                      profileName |-> activeProfile,
                                      ordinal |-> VersionOrdinal(index, localPath, entry)]
                                ELSE snaps[i]]
      ELSE UNCHANGED <<histFs, pendingBackups, snaps>>

\* HistoryManager.recordAfterUpload / recordAfterDownload, called by transfer xid
recordAfter(op, localPath, remotePath, xid) ==
  LET key == getBackupKey(localPath, remotePath, op)
  IN  IF key \in DOMAIN pendingBackups
      THEN LET st == addEntry([index |-> index, fs |-> histFs],
                              pendingBackups[key], cfg, now)
           IN  /\ index' = st.index
               /\ histFs' = st.fs
               /\ persisted' = saveIndex(st.index)
               /\ pendingBackups' = [k \in (DOMAIN pendingBackups) \ {key} |->
                                       pendingBackups[k]]
               /\ last' = Last("recordAfter", pendingBackups[key].id, TRUE, xid,
                                Len(index) + 1 - Len(st.index))
      ELSE /\ UNCHANGED <<index, histFs, pendingBackups, persisted>>
           /\ last' = Last("recordAfter", 0, FALSE, xid, 0)

\* a transfer of SyncManager calls recordBeforeUpload / recordBeforeDownload
RecordBefore(op, localPath, remotePath) ==
  /\ xfer.pc = "idle"
  /\ nextId <= MaxIds
  /\ recordBefore(op, localPath, remotePath)
  /\ xfer' = [pc |-> "transport", op |-> op, local |-> localPath,
              remote |-> remotePath, id |-> nextId]
  /\ nextId' = nextId + 1
  /\ last' = Other
  /\ UNCHANGED <<syncVars, schedVars, connVars, rollVars, profVars, storeVars, now, cfg, activeProfile, localFs, index, advances, edits, outcome>>

recordBeforeUpload == \E l \in LocalPaths : RecordBefore("upload", l, RemoteOf(l))
recordBeforeDownload == \E l \in LocalPaths : RecordBefore("download", l, RemoteOf(l))

SetOutcome(id, o) == [i \in (DOMAIN outcome) \cup {id} |-> IF i = id THEN o ELSE outcome[i]]

\* client.putFile succeeds: the local file is read and sent
putFileOk ==
  /\ xfer.pc = "transport" /\ xfer.op = "upload"
  /\ xfer.local \in DOMAIN localFs
  /\ xfer' = [xfer EXCEPT !.pc = "after"]
  /\ outcome' = SetOutcome(xfer.id, "ok")
  /\ last' = Other
  /\ UNCHANGED <<syncVars, schedVars, connVars, rollVars, profVars, storeVars, now, cfg, activeProfile, localFs, histFs, index, pendingBackups,
                 nextId, advances, edits, snaps>>

\* client.getFile succeeds: the local file now holds the remote content
getFileOk ==
  /\ xfer.pc = "transport" /\ xfer.op = "download"
  /\ \E c \in Contents :
       localFs' = [p \in (DOMAIN localFs) \cup {xfer.local} |->
                     IF p = xfer.local THEN c ELSE localFs[p]]
  /\ xfer' = [xfer EXCEPT !.pc = "after"]
  /\ outcome' = SetOutcome(xfer.id, "ok")
  /\ last' = Other
  /\ UNCHANGED <<syncVars, schedVars, connVars, rollVars, profVars, storeVars, now, cfg, activeProfile, histFs, index, pendingBackups,
                 nextId, advances, edits, snaps>>

\* the transport call throws: the transfer ends without recordAfter
TransportFail ==
  /\ xfer.pc = "transport"
  /\ xfer' = Idle
  /\ outcome' = SetOutcome(xfer.id, "failed")
  /\ last' = Other
  /\ UNCHANGED <<syncVars, schedVars, connVars, rollVars, profVars, storeVars, now, cfg, activeProfile, localFs, histFs, index, pendingBackups,
                 nextId, advances, edits, snaps>>

\* the transfer calls recordAfterUpload / recordAfterDownload
RecordAfter ==
  /\ xfer.pc = "after"
  /\ recordAfter(xfer.op, xfer.local, xfer.remote, xfer.id)
  /\ xfer' = Idle
  /\ UNCHANGED <<syncVars, schedVars, connVars, rollVars, profVars, storage, adds>>
  /\ UNCHANGED <<now, cfg, activeProfile, localFs, nextId, advances, edits, snaps, outcome>>

\* rollback of an entry listed by getHistoryForFile
Restore ==
  \E e \in Range(index) :
    LET r == restoreFromHistory(localFs, histFs, e)
    IN  /\ localFs' = r.localFs
        /\ histFs' = r.histFs
        /\ last' = Last("restore", e.id, r.ok, 0,
                         IF last.op = "restore" /\ last.id = e.id THEN 2 ELSE 1)
        /\ UNCHANGED <<syncVars, schedVars, connVars, rollVars, profVars, storeVars, now, cfg, activeProfile, index, pendingBackups, xfer,
                       nextId, advances, edits, snaps, outcome>>

\* the calls of the file system that can throw in clearHistory: readdirSync of
\* the history directory, rmSync of a version directory, and the writeFileSync
\* of saveIndex, whose error saveIndex swallows
ClearFaults == {"readdir", "rm", "write"}

\* HistoryStorage.clearHistory under a fault of the file system ("none": no
\* fault); removed: the version directories removed before rmSync threw
ClearHistory(fault, removed) ==
  IF fault \in {"readdir", "rm"}
  THEN /\ histFs' = [d \in (DOMAIN histFs) \ removed |-> histFs[d]]
       /\ UNCHANGED <<index, persisted, storage>>
  ELSE /\ histFs' = <<>>
       /\ index' = <<>>
       /\ storage' = "ready"
       /\ persisted' = IF fault = "write" THEN persisted ELSE saveIndex(<<>>)

\* HistoryStorage.clearHistory: removes every version directory, empties the index
clearHistory ==
  /\ ClearHistory("none", {})
  /\ last' = Other
  /\ UNCHANGED <<syncVars, schedVars, connVars, rollVars, profVars, adds>>
  /\ UNCHANGED <<now, cfg, activeProfile, localFs, pendingBackups, xfer,
                 nextId, advances, edits, snaps, outcome>>

\* the user edits or creates a local file
EditLocal ==
  \E p \in LocalPaths, c \in Contents :
    /\ edits < MaxEdits
    /\ edits' = edits + 1
    /\ localFs' = [q \in (DOMAIN localFs) \cup {p} |-> IF q = p THEN c ELSE localFs[q]]
    /\ last' = Other
    /\ UNCHANGED <<syncVars, schedVars, connVars, rollVars, profVars, storeVars, now, cfg, activeProfile, histFs, index, pendingBackups, xfer,
                   nextId, advances, snaps, outcome>>

\* the user deletes a local file
DeleteLocal ==
  \E p \in DOMAIN localFs :
    /\ edits < MaxEdits
    /\ edits' = edits + 1
    /\ localFs' = [q \in (DOMAIN localFs) \ {p} |-> localFs[q]]
    /\ last' = Other
    /\ UNCHANGED <<syncVars, schedVars, connVars, rollVars, profVars, storeVars, now, cfg, activeProfile, histFs, index, pendingBackups, xfer,
                   nextId, advances, snaps, outcome>>

\* time passes
Advance ==
  /\ advances < MaxAdvances
  /\ \E d \in Deltas : now' = now + d
  /\ advances' = advances + 1
  /\ last' = Other
  /\ UNCHANGED <<syncVars, schedVars, connVars, rollVars, profVars, storeVars, cfg, activeProfile, localFs, histFs, index, pendingBackups, xfer,
                 nextId, edits, snaps, outcome>>

Next ==
  \/ recordBeforeUpload
  \/ recordBeforeDownload
  \/ putFileOk
  \/ getFileOk
  \/ TransportFail
  \/ RecordAfter
  \/ Restore
  \/ clearHistory
  \/ EditLocal
  \/ DeleteLocal
  \/ Advance

Spec == Init /\ [][Next]_vars

(***************************************************************************)
(* SyncManager.  Local paths are relative to the folder the tree hangs     *)
(* under; the remote root of the profile is the folder r.                  *)
(***************************************************************************)
FileTxt == << <<"a", ".", "t">> >>
FileLog == << <<"b", ".", "l">> >>
FileDot == << <<".", "l">> >>
SyncPaths == {FileTxt, FileLog, FileDot}
LocalTrees == {{FileTxt, FileLog}, {FileTxt, FileDot}}
RemoteTree == {FileTxt, FileLog}
PatternLog == << <<"*", ".", "l">> >>
ExcludeLists == {<<>>, <<PatternLog>>}
LocalRootName == <<"w">>
Choices == {"Overwrite", "Cancel", "dismissed"}

\* the sequences that list every element of S once
Enumerations(S) ==
  {f \in [1..Cardinality(S) -> S] : \A i, j \in 1..Cardinality(S) : f[i] = f[j] => i = j}

\* one path segment against one pattern segment, "*" standing for any characters
RECURSIVE GlobMatch(_, _)
GlobMatch(pat, seg) ==
  IF pat = <<>> THEN seg = <<>>
  ELSE IF Head(pat) = "*"
       THEN \E k \in 0..Len(seg) : GlobMatch(Tail(pat), SubSeq(seg, k + 1, Len(seg)))
       ELSE seg # <<>> /\ Head(seg) = Head(pat) /\ GlobMatch(Tail(pat), Tail(seg))

\* minimatch(filePath, pattern, {dot}): segment by segment; without dot a
\* segment starting with "." is matched only by a pattern segment starting with "."
minimatch(filePath, pattern, dot) ==
  /\ Len(filePath) = Len(pattern)
  /\ \A i \in 1..Len(pattern) :
       /\ (filePath[i] # <<>> /\ Head(filePath[i]) = ".") => (dot \/ Head(pattern[i]) = ".")
       /\ GlobMatch(pattern[i], filePath[i])

\* shouldExclude without the second, dot-matching call
shouldExcludeNoDot(filePath, excludePatterns) ==
  \E i \in 1..Len(excludePatterns) : minimatch(filePath, excludePatterns[i], FALSE)

shouldExclude(filePath, excludePatterns) ==
  \E i \in 1..Len(excludePatterns) :
    \/ minimatch(filePath, excludePatterns[i], FALSE)
    \/ minimatch(filePath, excludePatterns[i], TRUE)

\* getRemotePath(localPath, remoteBase)
getRemotePath(localPath) ==
  IF workspaceFolder THEN RemoteOf(localPath) ELSE << <<"r">>, Basename(localPath) >>

\* getRemotePath of the folder the local tree hangs under
getRemoteFolderPath ==
  IF workspaceFolder THEN << <<"r">> >> ELSE << <<"r">>, LocalRootName >>

\* path.posix.relative(remoteBase, remotePath) for a path below the remote root
getLocalPath(remotePath) == Tail(remotePath)

\* the catch of an operation pushing the error and leaving success as it is
ThrownKeepingSuccess(result, error) ==
  [result EXCEPT !.errors = Append(@, [file |-> <<>>, error |-> error])]

\* the catch of an operation: success = false and the error in errors
Thrown(result, error) ==
  [result EXCEPT !.success = FALSE,
                 !.errors = Append(@, [file |-> <<>>, error |-> error])]

\* the catch around one file of a bulk operation, counting the file as processed
FileFailedCounted(result, file, error) ==
  [result EXCEPT !.errors = Append(@, [file |-> file, error |-> error]),
                 !.filesProcessed = @ + 1]

\* the catch around one file of a bulk operation
FileFailed(result, file, error) ==
  [result EXCEPT !.errors = Append(@, [file |-> file, error |-> error])]

\* the checks every operation starts with, without the one for the workspace folder
PreconditionNoFolderCheck(kind) ==
  IF activeProfile \notin Profiles THEN "No active server profile" ELSE ""

\* the checks every operation starts with: the error thrown, "" for none
Precondition(kind) ==
  IF kind = "syncAll" /\ ~workspaceFolder THEN "No workspace folder open"
  ELSE IF activeProfile \notin Profiles THEN "No active server profile"
  ELSE ""

\* choice !== 'Overwrite', taking a dismissed prompt for a yes
DeclinedOnlyByCancel(choice) == choice = "Cancel"

\* choice !== 'Overwrite'
Declined(choice) == choice # "Overwrite"

\* the result returned after a cancellation, started afresh
CancelledFresh(result, error) == Thrown(SyncResult(TRUE, 0, <<>>), error)

\* throw new Error('... cancelled') caught by the operation
Cancelled(result, error) == Thrown(result, error)

Bulk == {"uploadFolder", "downloadFolder", "syncAll"}
Single == {"uploadFile", "downloadFile"}
OpOf(kind) == IF kind \in {"downloadFile", "downloadFolder"} THEN "download" ELSE "upload"
Begin(kind) == [NoSync EXCEPT !.kind = kind, !.op = OpOf(kind)]
Done(s, result) == [s EXCEPT !.pc = "done", !.result = result]
RemoteContent(rfs, p) == IF p \in DOMAIN rfs THEN <<rfs[p]>> ELSE <<>>
LocalFile(lfs, p) == IF p \in DOMAIN lfs THEN <<lfs[p]>> ELSE <<>>
Logged(ev) == [log EXCEPT !.events = Append(@, ev)]

SyncInit ==
  /\ now = 0
  /\ \E c \in BOOLEAN :
       cfg = [maxHistoryVersions |-> MaxVersionsCfg, historyMaxAgeDays |-> MaxAgeDaysCfg,
              confirmBeforeOverwrite |-> c]
  /\ activeProfile \in Profiles \cup {NoProfile}
  /\ \E tree \in LocalTrees : localFs = [p \in tree |-> <<1>>]
  /\ histFs = <<>>
  /\ index = <<>>
  /\ pendingBackups = <<>>
  /\ xfer = Idle
  /\ nextId = 1
  /\ advances = 0
  /\ edits = 0
  /\ snaps = <<>>
  /\ outcome = <<>>
  /\ last = Other
  /\ workspaceFolder \in BOOLEAN
  /\ exclude \in ExcludeLists
  /\ remoteFs = [p \in {RemoteOf(q) : q \in RemoteTree} |-> <<2, 2>>]
  /\ sync = NoSync
  /\ log = NewLog(<<>>, <<>>, <<>>)
  /\ ops = 0
  /\ SchedAtRest
  /\ ConnAtRest
  /\ RollAtRest
  /\ ProfAtRest
  /\ StoreAtRest

\* an entry of log.events: a prompt answered (ok: the answer was Overwrite), a
\* recordBefore (ok: a snapshot was taken; pre: what the destination held), or
\* a transport call (ok: it returned)
Event(e, local, remote, id, ok, pre) ==
  [e |-> e, local |-> local, remote |-> remote, id |-> id, ok |-> ok, pre |-> pre]

CanStart == sync.pc \in {"idle", "done"} /\ ops < MaxOps

SyncFrame ==
  UNCHANGED <<schedVars, connVars, rollVars, profVars, storage, adds, now, cfg, activeProfile, xfer,
              advances, edits, outcome, workspaceFolder, exclude>>

Started ==
  /\ ops' = ops + 1
  /\ log' = NewLog(index, histFs, pendingBackups)
  /\ last' = Other
  /\ UNCHANGED <<persisted, localFs, histFs, index, pendingBackups, nextId, snaps, remoteFs>>
  /\ SyncFrame

\* uploadFile(localPath) up to the overwrite prompt
uploadFile ==
  /\ CanStart
  /\ \E l \in SyncPaths, connected \in BOOLEAN :
      /\ sync' =
           LET s == Begin("uploadFile")
               target == getRemotePath(l)
           IN  IF Precondition("uploadFile") # ""
               THEN Done(s, Thrown(s.result, Precondition("uploadFile")))
               ELSE IF ~connected THEN Done(s, Thrown(s.result, "connect"))
               ELSE [s EXCEPT !.local = l, !.remote = target,
                              !.pc = IF cfg.confirmBeforeOverwrite /\ target \in DOMAIN remoteFs
                                     THEN "confirm" ELSE "before"]
      /\ Started

\* downloadFile(remotePath) up to the overwrite prompt
downloadFile ==
  /\ CanStart
  /\ \E r \in {RemoteOf(q) : q \in SyncPaths}, connected \in BOOLEAN :
      /\ sync' =
           LET s == Begin("downloadFile")
               target == getLocalPath(r)
           IN  IF Precondition("downloadFile") # ""
               THEN Done(s, Thrown(s.result, Precondition("downloadFile")))
               ELSE IF ~workspaceFolder
               THEN Done(s, Thrown(s.result, "No workspace folder open"))
               ELSE IF ~connected THEN Done(s, Thrown(s.result, "connect"))
               ELSE [s EXCEPT !.local = target, !.remote = r,
                              !.pc = IF cfg.confirmBeforeOverwrite /\ target \in DOMAIN localFs
                                     THEN "confirm" ELSE "before"]
      /\ Started

\* the user answers the overwrite prompt of uploadFile / downloadFile
confirmOverwrite ==
  \E choice \in Choices :
    /\ sync.pc = "confirm"
    /\ sync' = IF Declined(choice) THEN Done(sync, sync.result)
               ELSE [sync EXCEPT !.pc = "before"]
    /\ log' = Logged(Event("ask", sync.local, sync.remote, 0, choice = "Overwrite", <<>>))
    /\ last' = Other
    /\ UNCHANGED <<persisted, localFs, histFs, index, pendingBackups, nextId, snaps, remoteFs, ops>>
    /\ SyncFrame

\* what recordBefore is logged as for the file at local / remote
BeforeEvent(local, remote) ==
  Event("before", local, remote, nextId,
        activeProfile \in Profiles /\ local \in DOMAIN localFs,
        IF sync.op = "upload" THEN RemoteContent(remoteFs, remote)
        ELSE LocalFile(localFs, local))

\* uploadFile / downloadFile: recordBefore, then the transport call is issued
singleRecordBefore ==
  /\ sync.pc = "before"
  /\ recordBefore(sync.op, sync.local, sync.remote)
  /\ nextId' = nextId + 1
  /\ sync' = [sync EXCEPT !.pc = "transport", !.id = nextId]
  /\ log' = Logged(BeforeEvent(sync.local, sync.remote))
  /\ last' = Other
  /\ UNCHANGED <<persisted, localFs, index, remoteFs, ops>>
  /\ SyncFrame

\* uploadFolder of the folder the local tree hangs under, up to the loop
uploadFolder ==
  /\ CanStart
  /\ \E files \in Enumerations(DOMAIN localFs), connected \in BOOLEAN, listed \in BOOLEAN :
      /\ sync' =
           LET s == Begin("uploadFolder")
           IN  IF Precondition("uploadFolder") # ""
               THEN Done(s, Thrown(s.result, Precondition("uploadFolder")))
               ELSE IF ~connected THEN Done(s, Thrown(s.result, "connect"))
               ELSE IF ~listed THEN Done(s, Thrown(s.result, "enumerate"))
               ELSE [s EXCEPT !.base = getRemoteFolderPath, !.files = files, !.pc = "loop"]
      /\ Started

\* downloadFolder of the remote root, up to the loop
downloadFolder ==
  /\ CanStart
  /\ \E files \in Enumerations(DOMAIN remoteFs), connected \in BOOLEAN, listed \in BOOLEAN :
      /\ sync' =
           LET s == Begin("downloadFolder")
           IN  IF Precondition("downloadFolder") # ""
               THEN Done(s, Thrown(s.result, Precondition("downloadFolder")))
               ELSE IF ~workspaceFolder
               THEN Done(s, Thrown(s.result, "No workspace folder open"))
               ELSE IF ~connected THEN Done(s, Thrown(s.result, "connect"))
               ELSE IF ~listed THEN Done(s, Thrown(s.result, "enumerate"))
               ELSE [s EXCEPT !.base = << <<"r">> >>, !.files = files, !.pc = "loop"]
      /\ Started

\* syncAll up to the loop: the local files that are not excluded
syncAll ==
  /\ CanStart
  /\ \E localFiles \in Enumerations(DOMAIN localFs), connected \in BOOLEAN, listed \in BOOLEAN :
      /\ sync' =
           LET s == Begin("syncAll")
               filesToUpload == SelectSeq(localFiles, LAMBDA f : ~shouldExclude(f, exclude))
           IN  IF Precondition("syncAll") # ""
               THEN Done(s, Thrown(s.result, Precondition("syncAll")))
               ELSE IF ~connected THEN Done(s, Thrown(s.result, "connect"))
               ELSE IF ~listed THEN Done(s, Thrown(s.result, "enumerate"))
               ELSE [s EXCEPT !.base = << <<"r">> >>, !.files = filesToUpload, !.pc = "loop"]
      /\ Started

\* the local and the remote path of file number k of the bulk operation
BulkLocal(s, k) == IF s.kind = "downloadFolder" THEN Tail(s.files[k]) ELSE s.files[k]
BulkRemote(s, k) ==
  IF s.kind = "downloadFolder" THEN s.files[k]
  ELSE IF s.kind = "uploadFolder" THEN s.base \o s.files[k]
  ELSE RemoteOf(s.files[k])

\* one turn of the loop of a bulk operation: the end of the loop, or the
\* cancellation seen, or recordBefore for the next file and its transport call issued
bulkNextFile ==
  /\ sync.pc = "loop"
  /\ IF sync.i >= Len(sync.files)
     THEN /\ sync' = Done(sync, sync.result)
          /\ UNCHANGED <<histFs, pendingBackups, snaps, nextId, log>>
     ELSE IF sync.token
     THEN /\ sync' = Done(sync, Cancelled(sync.result, "cancelled"))
          /\ UNCHANGED <<histFs, pendingBackups, snaps, nextId, log>>
     ELSE LET local == BulkLocal(sync, sync.i + 1)
              remote == BulkRemote(sync, sync.i + 1)
          IN  /\ recordBefore(sync.op, local, remote)
              /\ nextId' = nextId + 1
              /\ sync' = [sync EXCEPT !.pc = "transport", !.local = local,
                                      !.remote = remote, !.id = nextId]
              /\ log' = Logged(BeforeEvent(local, remote))
  /\ last' = Other
  /\ UNCHANGED <<persisted, localFs, index, remoteFs, ops>>
  /\ SyncFrame

\* client.putFile returns: the remote file holds the content of the local one
putFile ==
  /\ sync.pc = "transport" /\ sync.op = "upload"
  /\ sync.local \in DOMAIN localFs
  /\ remoteFs' = [p \in (DOMAIN remoteFs) \cup {sync.remote} |->
                    IF p = sync.remote THEN localFs[sync.local] ELSE remoteFs[p]]
  /\ sync' = [sync EXCEPT !.pc = "after",
                          !.result.filesProcessed = IF sync.kind \in Single THEN 1 ELSE @]
  /\ log' = Logged(Event("transport", sync.local, sync.remote, sync.id, TRUE, <<>>))
  /\ last' = Other
  /\ UNCHANGED <<persisted, localFs, histFs, index, pendingBackups, nextId, snaps, ops>>
  /\ SyncFrame

\* client.getFile returns: the local file holds the content of the remote one
getFile ==
  /\ sync.pc = "transport" /\ sync.op = "download"
  /\ sync.remote \in DOMAIN remoteFs
  /\ localFs' = [p \in (DOMAIN localFs) \cup {sync.local} |->
                   IF p = sync.local THEN remoteFs[sync.remote] ELSE localFs[p]]
  /\ sync' = [sync EXCEPT !.pc = "after",
                          !.result.filesProcessed = IF sync.kind \in Single THEN 1 ELSE @]
  /\ log' = Logged(Event("transport", sync.local, sync.remote, sync.id, TRUE, <<>>))
  /\ last' = Other
  /\ UNCHANGED <<persisted, remoteFs, histFs, index, pendingBackups, nextId, snaps, ops>>
  /\ SyncFrame

\* client.putFile / client.getFile throws
transportThrows ==
  /\ sync.pc = "transport"
  /\ sync' = IF sync.kind \in Single
             THEN Done(sync, Thrown(sync.result, "transport"))
             ELSE [sync EXCEPT !.pc = "loop", !.i = @ + 1,
                               !.result = FileFailed(@, sync.files[sync.i + 1], "transport")]
  /\ log' = Logged(Event("transport", sync.local, sync.remote, sync.id, FALSE, <<>>))
  /\ last' = Other
  /\ UNCHANGED <<persisted, localFs, remoteFs, histFs, index, pendingBackups, nextId, snaps, ops>>
  /\ SyncFrame

\* recordAfter for the file transferred, and the file counted
syncRecordAfter ==
  /\ sync.pc = "after"
  /\ recordAfter(sync.op, sync.local, sync.remote, sync.id)
  /\ sync' = IF sync.kind \in Single THEN Done(sync, sync.result)
             ELSE [sync EXCEPT !.pc = "loop", !.i = @ + 1,
                               !.result.filesProcessed = @ + 1]
  /\ UNCHANGED <<localFs, remoteFs, nextId, snaps, log, ops>>
  /\ SyncFrame

\* the user cancels the progress notification of a bulk operation
requestCancel ==
  /\ sync.kind \in Bulk /\ sync.pc \in {"loop", "transport", "after"}
  /\ ~sync.token
  /\ sync' = [sync EXCEPT !.token = TRUE]
  /\ last' = Other
  /\ UNCHANGED <<persisted, localFs, remoteFs, histFs, index, pendingBackups, nextId, snaps, log, ops>>
  /\ SyncFrame

SyncNext ==
  \/ uploadFile
  \/ downloadFile
  \/ confirmOverwrite
  \/ singleRecordBefore
  \/ uploadFolder
  \/ downloadFolder
  \/ syncAll
  \/ bulkNextFile
  \/ putFile
  \/ getFile
  \/ transportThrows
  \/ syncRecordAfter
  \/ requestCancel

SyncSpec == SyncInit /\ [][SyncNext]_vars

(***************************************************************************)
(* Properties.                                                             *)
(***************************************************************************)
IndexIds(idx) == {e.id : e \in Range(idx)}
EntriesFor(idx, p) == SelectSeq(idx, LAMBDA e : e.localPath = p)
MaxAgeMs == cfg.historyMaxAgeDays * DayMs

\* the blob written for snapshot id is still at the place it was written to
OwnBlob(fs, id) ==
  /\ snaps[id].dir \in DOMAIN fs
  /\ \E i \in 1..Len(fs[snaps[id].dir]) : fs[snaps[id].dir][i].name = snaps[id].name

\* the content of a local file, <<>> when it does not exist
LocalContent(lfs, p) == IF p \in DOMAIN lfs THEN <<lfs[p]>> ELSE <<>>

Committed == last.op = "recordAfter" /\ last.ok
CommitStep == xfer.pc = "after" /\ xfer'.pc = "idle" /\ last'.op = "recordAfter" /\ last'.ok

\* C1: retention invariant.  No local path ever has more index entries than
\* maxHistoryVersions, and when addEntry (append + pruning) has completed, no
\* index entry is older than historyMaxAgeDays.
C1_Retention ==
  /\ \A p \in LocalPaths : Len(EntriesFor(index, p)) <= cfg.maxHistoryVersions
  /\ Committed => \A e \in Range(index) : now - e.timestamp <= MaxAgeMs

\* C1 witness: a commit whose pruning removed an entry and left one in the index.
C1_Witness == Committed /\ last.n > 0 /\ index # <<>>

\* C2: when a commit takes a path over maxHistoryVersions, pruning keeps the
\* newest maxHistoryVersions entries of the path, removes the blob of every
\* pruned entry, and removes the blob of no entry that stays in the index.
C2_PruneKeepsNewestAndTheirBlobs ==
  [][CommitStep =>
       LET p == xfer.local
           before == Append(index, pendingBackups[getBackupKey(xfer.local, xfer.remote, xfer.op)])
           pruned == {e \in Range(before) : e.id \notin IndexIds(index')}
       IN  /\ (/\ Len(EntriesFor(before, p)) > cfg.maxHistoryVersions
               /\ \A e \in Range(before) : now - e.timestamp <= MaxAgeMs)
              => /\ Len(EntriesFor(index', p)) = cfg.maxHistoryVersions
                 /\ \A e \in Range(index'), d \in pruned :
                      e.localPath = p /\ d.localPath = p => e.timestamp >= d.timestamp
           /\ \A d \in pruned : ~OwnBlob(histFs', d.id)
           /\ \A e \in Range(index') : OwnBlob(histFs, e.id) => OwnBlob(histFs', e.id)
    ]_vars

\* C3: the entry of a transfer whose transport call failed is never in the index.
C3_FailedNeverIndexed ==
  \A e \in Range(index) : ~(e.id \in DOMAIN outcome /\ outcome[e.id] = "failed")

\* C4: no commit without snapshot.  When the recordBefore of a transfer found no
\* local file, the recordAfter of that transfer adds no entry to the index.
C4_NoCommitWithoutSnapshot ==
  (last.op = "recordAfter" /\ last.xid \notin DOMAIN snaps) => ~last.ok

\* C5: ordinal stability.  The ordinals given to successive snapshots of one
\* (local path, operation, profile) triple strictly increase.
C5_OrdinalsStrictlyIncrease ==
  \A i, j \in DOMAIN snaps :
    (/\ i < j
     /\ snaps[i].localPath = snaps[j].localPath
     /\ snaps[i].operation = snaps[j].operation
     /\ snaps[i].profileName = snaps[j].profileName)
    => snaps[i].ordinal < snaps[j].ordinal

\* C6: two distinct snapshots are never written to the same blob location.
C6_DistinctBlobLocations ==
  \A i, j \in DOMAIN snaps :
    i # j => <<snaps[i].dir, snaps[i].name>> # <<snaps[j].dir, snaps[j].name>>

\* C7: after a successful restoreFromHistory(entry), entry.localPath holds the
\* content snapshotted for that very entry.
C7_RestoreGivesOwnSnapshot ==
  (last.op = "restore" /\ last.ok) =>
     LocalContent(localFs, snaps[last.id].localPath) = <<snaps[last.id].content>>

\* C8: restoreFromHistory(entry) with the blob of entry missing fails and leaves
\* entry.localPath and the index unchanged.
C8_MissingBlobFailsRestore ==
  [][(last'.op = "restore" /\ ~OwnBlob(histFs, last'.id)) =>
       /\ ~last'.ok
       /\ localFs' = localFs
       /\ index' = index
    ]_vars

\* C9: idempotent restore.  A restoreFromHistory of the entry that was restored
\* by the operation just before leaves the local file as that one left it.
C9_RestoreIdempotent ==
  [][(last.op = "restore" /\ last'.op = "restore" /\ last'.id = last.id) =>
       LocalContent(localFs', snaps[last.id].localPath)
         = LocalContent(localFs, snaps[last.id].localPath)
    ]_vars

\* C9 witness: the same entry restored twice in a row, successfully.
C9_Witness == last.op = "restore" /\ last.ok /\ last.n = 2

\* C10: snapshot, transport, commit happen in this order; an entry is in the
\* index only when the transport call of its own transfer has succeeded; a
\* failed transport call changes nothing in the index.
C10_CommitOnlyAfterOwnTransfer ==
  [][/\ \A e \in Range(index') : e.id \in DOMAIN outcome' /\ outcome'[e.id] = "ok"
     /\ xfer'.pc = "transport" => xfer'.id \notin DOMAIN outcome'
     /\ xfer'.pc = "after" => xfer'.id \in DOMAIN outcome' /\ outcome'[xfer'.id] = "ok"
     /\ (last'.op = "recordAfter" /\ xfer.pc = "after") => outcome[xfer.id] = "ok"
     /\ (xfer.pc = "transport" /\ xfer'.pc = "idle") => index' = index
    ]_vars

(***************************************************************************)
(* SyncScheduler.  A timer handle is the number of the setTimeout call     *)
(* that made it; timers holds the timers that can still fire.              *)
(***************************************************************************)
\* workspaceFolder.uri.fsPath, and the folders next to it
WorkspaceRoot == << <<"w">> >>
SiblingRoot == << <<"w", "2">> >>
OtherRoot == << <<"x">> >>

Document(scheme, fsPath) == [scheme |-> scheme, fsPath |-> fsPath]
Documents == {Document("file", WorkspaceRoot \o FileTxt),
              Document("file", WorkspaceRoot \o FileLog),
              Document("file", SiblingRoot \o FileTxt),
              Document("file", OtherRoot \o FileTxt),
              Document("untitled", WorkspaceRoot \o FileDot)}

\* a path as the string the program holds: every segment after a "/"
RECURSIVE PathString(_)
PathString(p) ==
  IF p = <<>> THEN <<>> ELSE <<"/">> \o Head(p) \o PathString(Tail(p))

\* String.prototype.substring(start)
Substring(s, start) == IF start >= Len(s) THEN <<>> ELSE SubSeq(s, start + 1, Len(s))

\* the segments minimatch splits a path string into
RECURSIVE SplitPath(_)
SplitPath(s) ==
  IF s = <<>> THEN << <<>> >>
  ELSE LET rest == SplitPath(Tail(s))
       IN  IF Head(s) = "/" THEN << <<>> >> \o rest
           ELSE << <<Head(s)>> \o Head(rest) >> \o Tail(rest)

SchedInit ==
  /\ now = 0
  /\ cfg = [maxHistoryVersions |-> MaxVersionsCfg, historyMaxAgeDays |-> MaxAgeDaysCfg]
  /\ activeProfile \in Profiles \cup {NoProfile}
  /\ localFs = [p \in {FileTxt, FileLog} |-> <<1>>]
  /\ histFs = <<>>
  /\ index = <<>>
  /\ pendingBackups = <<>>
  /\ xfer = Idle
  /\ nextId = 1
  /\ advances = 0
  /\ edits = 0
  /\ snaps = <<>>
  /\ outcome = <<>>
  /\ last = Other
  /\ workspaceFolder \in BOOLEAN
  /\ exclude \in ExcludeLists
  /\ remoteFs = <<>>
  /\ sync = NoSync
  /\ log = NewLog(<<>>, <<>>, <<>>)
  /\ ops = 0
  /\ isAutoUploadEnabled \in BOOLEAN
  /\ debounceTimers = <<>>
  /\ timers = <<>>
  /\ inflight = <<>>
  /\ sched = NoSched
  /\ ConnAtRest
  /\ RollAtRest
  /\ ProfAtRest
  /\ StoreAtRest

\* SyncScheduler.shouldAutoUpload
shouldAutoUpload(document) ==
  LET filePath == PathString(document.fsPath)
      root == PathString(WorkspaceRoot)
      relativePath == Substring(filePath, Len(root) + 1)
  IN  /\ document.scheme = "file"
      /\ activeProfile \in Profiles
      /\ workspaceFolder
      /\ StartsWith(filePath, root)
      /\ ~shouldExclude(SplitPath(relativePath), exclude)

\* the segment ".." of a path
ParentSegment == <<".", ".">>

\* path.relative(from, to) of two absolute paths, in segments
RECURSIVE pathRelative(_, _)
pathRelative(from, to) ==
  IF from # <<>> /\ to # <<>> /\ Head(from) = Head(to)
  THEN pathRelative(Tail(from), Tail(to))
  ELSE [i \in 1..Len(from) |-> ParentSegment] \o to

\* path.posix.join(base, relative) of an absolute base: the normalized path
RECURSIVE posixJoin(_, _)
posixJoin(base, relative) ==
  IF relative = <<>> THEN base
  ELSE IF Head(relative) = ParentSegment
  THEN posixJoin(IF base = <<>> THEN <<>> ELSE SubSeq(base, 1, Len(base) - 1), Tail(relative))
  ELSE posixJoin(Append(base, Head(relative)), Tail(relative))

\* SyncManager.getRemotePath(localPath, activeProfile.remotePath) of the
\* absolute path uploadFile is given by the timer
getRemotePathOf(fsPath) ==
  IF workspaceFolder THEN posixJoin(<< <<"r">> >>, pathRelative(WorkspaceRoot, fsPath))
  ELSE << <<"r">>, Basename(fsPath) >>

Without(f, k) == [x \in (DOMAIN f) \ {k} |-> f[x]]
With(f, k, v) == [x \in (DOMAIN f) \cup {k} |-> IF x = k THEN v ELSE f[x]]

\* clearTimeout taking every pending timer off
clearTimeoutAll(ts, timer) == <<>>

\* clearTimeout(timer): a timer that has fired is not there any more
clearTimeout(ts, timer) == Without(ts, timer)

SchedFrame == UNCHANGED <<histVars, syncVars, connVars, rollVars, profVars, storeVars>>

\* the configuration filesyncer.autoUpload changes
configChanged ==
  /\ isAutoUploadEnabled' = ~isAutoUploadEnabled
  /\ sched' = [sched EXCEPT !.path = <<>>]
  /\ UNCHANGED <<debounceTimers, timers, inflight>>
  /\ SchedFrame

\* scheduleUpload(document) on a save of document
scheduleUpload ==
  /\ sched.saves < MaxSaves
  /\ \E document \in Documents :
       LET filePath == document.fsPath
           timer == sched.set + 1
       IN  IF /\ isAutoUploadEnabled
              /\ shouldAutoUpload(document)
              /\ activeProfile \in Profiles
           THEN /\ timers' =
                     With(IF filePath \in DOMAIN debounceTimers
                          THEN clearTimeout(timers, debounceTimers[filePath])
                          ELSE timers,
                          timer, [path |-> filePath, cancels |-> sched.cancels])
                /\ debounceTimers' = With(debounceTimers, filePath, timer)
                /\ sched' = [sched EXCEPT !.saves = @ + 1, !.set = timer,
                                          !.path = filePath,
                                          !.lastSave = With(@, filePath,
                                                            [timer |-> timer,
                                                             cancelled |-> FALSE])]
           ELSE /\ sched' = [sched EXCEPT !.saves = @ + 1, !.path = filePath]
                /\ UNCHANGED <<timers, debounceTimers>>
  /\ UNCHANGED <<isAutoUploadEnabled, inflight>>
  /\ SchedFrame

\* the newest timer set for a path
NewestFor(ts, path) ==
  CHOOSE t \in DOMAIN ts : ts[t].path = path /\ \A u \in DOMAIN ts : ts[u].path = path => u <= t

\* a timer fires: its callback calls syncManager.uploadFile(filePath)
timerFires ==
  \E timer \in DOMAIN timers :
    /\ timers' = Without(timers, timer)
    /\ inflight' = With(inflight, timer, timers[timer].path)
    /\ sched' = [sched EXCEPT !.path = timers[timer].path, !.started =
                   Append(@, [path |-> timers[timer].path, timer |-> timer,
                              setAt |-> timers[timer].cancels, cancels |-> sched.cancels,
                              set |-> sched.set,
                              remote |-> getRemotePathOf(timers[timer].path),
                              newest |-> timer = NewestFor(timers, timers[timer].path)])]
    /\ UNCHANGED <<isAutoUploadEnabled, debounceTimers>>
    /\ SchedFrame

\* uploadFile returns to the callback of a timer: debounceTimers.delete(filePath)
uploadReturns ==
  \E timer \in DOMAIN inflight :
    /\ inflight' = Without(inflight, timer)
    /\ debounceTimers' = Without(debounceTimers, inflight[timer])
    /\ sched' = [sched EXCEPT !.path = inflight[timer]]
    /\ UNCHANGED <<isAutoUploadEnabled, timers>>
    /\ SchedFrame

\* cancelScheduledUpload(filePath)
cancelScheduledUpload ==
  \E filePath \in DOMAIN debounceTimers :
    /\ timers' = clearTimeout(timers, debounceTimers[filePath])
    /\ debounceTimers' = Without(debounceTimers, filePath)
    /\ sched' = [sched EXCEPT !.path = filePath,
                              !.lastSave = IF filePath \in DOMAIN @
                                           THEN [@ EXCEPT ![filePath].cancelled = TRUE]
                                           ELSE @]
    /\ UNCHANGED <<isAutoUploadEnabled, inflight>>
    /\ SchedFrame

\* cancelAllScheduledUploads(), which is all that dispose() does
cancelAllScheduledUploads ==
  /\ sched.cancels < MaxCancels
  /\ timers' = [t \in (DOMAIN timers) \ {debounceTimers[p] : p \in DOMAIN debounceTimers}
                  |-> timers[t]]
  /\ debounceTimers' = <<>>
  /\ sched' = [sched EXCEPT !.cancels = @ + 1, !.path = <<>>,
                            !.lastSave = [p \in DOMAIN @ |-> [@[p] EXCEPT !.cancelled = TRUE]]]
  /\ UNCHANGED <<isAutoUploadEnabled, inflight>>
  /\ SchedFrame

SchedNext ==
  \/ configChanged
  \/ scheduleUpload
  \/ timerFires
  \/ uploadReturns
  \/ cancelScheduledUpload
  \/ cancelAllScheduledUploads

SchedSpec == SchedInit /\ [][SchedNext]_vars

\* the timers of setTimeout fire when their delay is over, and uploadFile
\* returns to the callback that awaits it
SchedFairSpec ==
  /\ SchedInit
  /\ [][SchedNext]_vars
  /\ WF_vars(timerFires)
  /\ WF_vars(uploadReturns)

(***************************************************************************)
(* SFTPManager.  A client is the number of the new SFTPClient() that made  *)
(* it; the callers are the operations that use the manager concurrently,   *)
(* such as the upload of a debounce timer and a manual sync.               *)
(***************************************************************************)
Callers == {1, 2}

NoCall == [pc |-> "idle", op |-> "none", profile |-> "", client |-> 0, result |-> "none",
           n |-> 0]

ConnInit ==
  /\ HistAtRest
  /\ activeProfile \in Profiles \cup {NoProfile}
  /\ localFs = <<>>
  /\ SyncAtRest
  /\ SchedAtRest
  /\ connections = <<>>
  /\ clients = <<>>
  /\ callers = [c \in Callers |-> NoCall]
  /\ RollAtRest
  /\ ProfAtRest
  /\ StoreAtRest

ConnectionInfo(client, status) == [client |-> client, status |-> status]

\* SFTPClient.isConnected of the client tracked for profileName
TrackedConnected(profileName) ==
  /\ profileName \in DOMAIN connections
  /\ clients[connections[profileName].client].connected

\* SFTPManager.getClient: the tracked client when it is connected, 0 for undefined
getClient(profileName) ==
  IF TrackedConnected(profileName) THEN connections[profileName].client ELSE 0

\* SFTPManager.getConnectionStatus(profileName)
getConnectionStatus(profileName) ==
  IF profileName \in DOMAIN connections THEN connections[profileName].status
  ELSE "disconnected"

ConnFrame == UNCHANGED <<histVars, syncVars, schedVars, rollVars, profVars, storeVars>>

Returned(c, op, client, result) ==
  [callers EXCEPT ![c] = [pc |-> "idle", op |-> op, profile |-> callers[c].profile,
                          client |-> client, result |-> result, n |-> callers[c].n + 1]]

\* the call of c returns at once: the profile it was made for, and its result
ReturnedFor(c, op, profileName, client, result) ==
  [Returned(c, op, client, result) EXCEPT ![c].profile = profileName]

\* SFTPManager.connect(profileName) up to await client.connect(profile)
connectTo(c, op, profileName) ==
  IF TrackedConnected(profileName)
  THEN /\ callers' = ReturnedFor(c, op, profileName, connections[profileName].client,
                                 "returned")
       /\ UNCHANGED <<connections, clients>>
  ELSE LET client == Cardinality(DOMAIN clients) + 1
       IN  /\ clients' = With(clients, client, [profile |-> profileName, connected |-> FALSE])
           /\ connections' = With(connections, profileName, ConnectionInfo(client, "connecting"))
           /\ callers' = [callers EXCEPT ![c] = [@ EXCEPT !.pc = "connecting", !.op = op,
                                                           !.profile = profileName,
                                                           !.client = client]]

CanCall(c) == callers[c].pc = "idle" /\ callers[c].n < MaxConnCalls

\* the command connect of a profile
connect ==
  \E c \in Callers, profileName \in Profiles :
    /\ CanCall(c)
    /\ connectTo(c, "connect", profileName)
    /\ ConnFrame

\* SFTPManager.ensureConnected() up to its first await
ensureConnected ==
  \E c \in Callers :
    /\ CanCall(c)
    /\ IF activeProfile \notin Profiles
       THEN /\ callers' = Returned(c, "ensureConnected", 0, "threw")
            /\ UNCHANGED <<connections, clients>>
       ELSE IF getClient(activeProfile) # 0
       THEN /\ callers' = ReturnedFor(c, "ensureConnected", activeProfile,
                                      getClient(activeProfile), "returned")
            /\ UNCHANGED <<connections, clients>>
       ELSE connectTo(c, "ensureConnected", activeProfile)
    /\ ConnFrame

\* client.connect(profile) returns to SFTPManager.connect
clientConnects ==
  \E c \in Callers :
    /\ callers[c].pc = "connecting"
    /\ LET client == callers[c].client
           profileName == clients[client].profile
       IN  /\ clients' = [clients EXCEPT ![client].connected = TRUE]
           /\ connections' = With(connections, profileName, ConnectionInfo(client, "connected"))
           /\ callers' = Returned(c, callers[c].op, client, "returned")
    /\ ConnFrame

\* client.connect(profile) throws: the catch of SFTPManager.connect
clientConnectThrows ==
  \E c \in Callers :
    /\ callers[c].pc = "connecting"
    /\ LET client == callers[c].client
           profileName == clients[client].profile
       IN  /\ connections' = With(connections, profileName, ConnectionInfo(client, "error"))
           /\ callers' = Returned(c, callers[c].op, 0, "threw")
    /\ UNCHANGED clients
    /\ ConnFrame

\* SFTPManager.disconnect(profileName) and disconnect() up to await client.disconnect()
disconnect ==
  \E c \in Callers, profileName \in Profiles, all \in BOOLEAN :
    /\ CanCall(c)
    /\ IF TrackedConnected(profileName)
       THEN /\ callers' = [callers EXCEPT ![c] =
                             [@ EXCEPT !.pc = "ending",
                                       !.op = IF all THEN "disconnectAll" ELSE "disconnect",
                                       !.profile = profileName,
                                       !.client = connections[profileName].client]]
            /\ UNCHANGED connections
       ELSE /\ callers' = ReturnedFor(c, IF all THEN "disconnectAll" ELSE "disconnect",
                                      profileName, 0, "returned")
            /\ connections' = IF all THEN <<>> ELSE connections
    /\ UNCHANGED clients
    /\ ConnFrame

\* client.disconnect() returns: connections.delete(profileName) / connections.clear()
clientEnds ==
  \E c \in Callers :
    /\ callers[c].pc = "ending"
    /\ LET client == callers[c].client
       IN  /\ clients' = [clients EXCEPT ![client].connected = FALSE]
           /\ connections' = IF callers[c].op = "disconnectAll" THEN <<>>
                              ELSE Without(connections, clients[client].profile)
           /\ callers' = Returned(c, callers[c].op, 0, "returned")
    /\ ConnFrame

\* client.disconnect() throws: the error leaves SFTPManager.disconnect
clientEndThrows ==
  \E c \in Callers :
    /\ callers[c].pc = "ending"
    /\ callers' = Returned(c, callers[c].op, 0, "threw")
    /\ UNCHANGED <<connections, clients>>
    /\ ConnFrame

ConnNext ==
  \/ connect
  \/ ensureConnected
  \/ clientConnects
  \/ clientConnectThrows
  \/ disconnect
  \/ clientEnds
  \/ clientEndThrows

ConnSpec == ConnInit /\ [][ConnNext]_vars

(***************************************************************************)
(* HistoryStorage with a file system that can fail and with transfers that *)
(* overlap.  addEntry runs from one await to the next in one step: up to   *)
(* the first await this.deleteEntry(entry), then one deleteEntry per step. *)
(* While an addEntry is between two awaits only the continuation of        *)
(* another transfer whose transport call has returned can run.             *)
(***************************************************************************)
Lanes == {1, 2}

NoAdd == [pc |-> "idle", local |-> <<>>, remote |-> <<>>, id |-> 0, marked |-> <<>>,
          todo |-> <<>>, base |-> <<>>, result |-> "none", deleted |-> <<>>]

\* no addEntry had overlapped another
NoOverlap == [on |-> FALSE, base |-> <<>>, first |-> <<>>, second |-> <<>>, t |-> 0]

\* the store after new HistoryStorage() found the index file `file`
StoreLoaded(file) ==
  /\ HistAtRest
  /\ activeProfile \in Profiles
  /\ localFs = [p \in LocalPaths |-> <<1>>]
  /\ SyncAtRest
  /\ SchedAtRest
  /\ ConnAtRest
  /\ RollAtRest
  /\ ProfAtRest
  /\ persisted = file
  /\ storage = loadIndex(file).storage
  /\ index = loadIndex(file).entries
  /\ adds = [calls |-> [c \in Lanes |-> NoAdd], faults |-> 0, clears |-> 0, loaded |-> file.state,
             overlap |-> NoOverlap]

StoreFrame ==
  UNCHANGED <<syncVars, schedVars, connVars, rollVars, profVars, now, cfg, activeProfile, localFs,
              xfer, advances, edits, outcome>>

Pruning(c) == adds.calls[c].pc = "pruning"
NoPruning == \A c \in Lanes : ~Pruning(c)

\* the faults the file system may show in the next call, out of kinds
Faults(kinds) == IF adds.faults < MaxFaults THEN kinds \cup {"none"} ELSE {"none"}
Faulted(a, fault) == [a EXCEPT !.faults = IF fault = "none" THEN @ ELSE @ + 1]

\* a transfer starts: recordBeforeUpload; generateVersionSuffix throws, after
\* the version directory is made, when the index has no entries array
RecordBeforeUpload(c, l, max) ==
  /\ adds.calls[c].pc = "idle"
  /\ NoPruning
  /\ nextId <= max
  /\ nextId' = nextId + 1
  /\ IF storage = "ready"
     THEN /\ recordBefore("upload", l, RemoteOf(l))
          /\ adds' = [adds EXCEPT !.overlap = NoOverlap,
                                   !.calls[c] = [NoAdd EXCEPT !.pc = "transport", !.local = l,
                                                              !.remote = RemoteOf(l),
                                                              !.id = nextId]]
     ELSE /\ histFs' = LET dir == <<now \div SecondMs, activeProfile>>
                       IN  [d \in (DOMAIN histFs) \cup {dir} |-> ListingOf(histFs, d)]
          /\ adds' = [adds EXCEPT !.overlap = NoOverlap,
                                   !.calls[c] = [NoAdd EXCEPT !.result = "threw"]]
          /\ UNCHANGED <<pendingBackups, snaps>>
  /\ last' = Other
  /\ UNCHANGED <<index, persisted, storage>>
  /\ StoreFrame

\* client.putFile of a transfer returns: its continuation is ready to run
TransportReturns(c) ==
  /\ adds.calls[c].pc = "transport"
  /\ NoPruning
  /\ adds' = [adds EXCEPT !.calls[c].pc = "returned"]
  /\ last' = Other
  /\ UNCHANGED <<histFs, index, pendingBackups, nextId, snaps, persisted, storage>>
  /\ StoreFrame

\* one deleteEntry(entry) of the loop of cleanupOldEntries, by the call of lane c
DeleteStep(c, st, entry, todo, others, kinds) ==
  \E fault \in Faults(kinds) :
    LET blobFault == IF fault = "write" THEN "none" ELSE fault
        after == deleteEntryUnder(st, entry, blobFault)
    IN  /\ index' = after.index
        /\ histFs' = after.fs
        /\ persisted' = IF fault = "write" THEN others.persisted ELSE saveIndex(after.index)
        /\ adds' = Faulted([others.adds EXCEPT
                      !.calls[c].todo = todo,
                      !.calls[c].deleted = Append(@, [id |-> entry.id, fault |-> fault])],
                      fault)

\* recordAfterUpload of a transfer whose putFile returned, up to the first
\* await in addEntry: push, saveIndex, the list of cleanupOldEntries, and the
\* first deleteEntry
AddEntryBegin(c, writes, deletes) ==
  LET call == adds.calls[c]
      key == getBackupKey(call.local, call.remote, "upload")
  IN  /\ call.pc = "returned"
      /\ IF key \notin DOMAIN pendingBackups
         THEN /\ adds' = [adds EXCEPT !.calls[c] = [NoAdd EXCEPT !.result = "skipped"]]
              /\ UNCHANGED <<index, histFs, persisted>>
         ELSE IF storage # "ready"
         THEN /\ adds' = [adds EXCEPT !.calls[c] = [NoAdd EXCEPT !.result = "threw"]]
              /\ UNCHANGED <<index, histFs, persisted>>
         ELSE \E write \in Faults(writes) :
                LET entry == pendingBackups[key]
                    pushed == Append(index, entry)
                    saved == IF write = "write" THEN persisted ELSE saveIndex(pushed)
                    list == EntriesToDelete(pushed, GroupKeys(pushed), cfg.maxHistoryVersions,
                                            cfg.historyMaxAgeDays * DayMs, now)
                    other == CHOOSE d \in Lanes : d # c
                    begun == Faulted([adds EXCEPT
                               !.calls[c] = [call EXCEPT !.pc = "pruning", !.marked = list,
                                                         !.todo = list,
                                                         !.base = [index |-> index, fs |-> histFs,
                                                                   entry |-> entry]],
                               !.overlap = IF Pruning(other)
                                           THEN [on |-> TRUE,
                                                 base |-> [index |-> adds.calls[other].base.index,
                                                           fs |-> adds.calls[other].base.fs],
                                                 first |-> adds.calls[other].base.entry,
                                                 second |-> entry, t |-> now]
                                           ELSE NoOverlap], write)
                IN  IF list = <<>>
                    THEN /\ index' = pushed
                         /\ persisted' = saved
                         /\ adds' = begun
                         /\ UNCHANGED histFs
                    ELSE DeleteStep(c, [index |-> pushed, fs |-> histFs], Head(list), Tail(list),
                                    [adds |-> begun, persisted |-> saved], deletes)
      /\ last' = Other
      /\ UNCHANGED <<pendingBackups, nextId, snaps, storage>>
      /\ StoreFrame

\* the loop of cleanupOldEntries goes on after an await: the next deleteEntry
AddEntryStep(c, deletes) ==
  /\ Pruning(c)
  /\ adds.calls[c].todo # <<>>
  /\ DeleteStep(c, [index |-> index, fs |-> histFs], Head(adds.calls[c].todo),
                Tail(adds.calls[c].todo), [adds |-> adds, persisted |-> persisted], deletes)
  /\ last' = Other
  /\ UNCHANGED <<pendingBackups, nextId, snaps, storage>>
  /\ StoreFrame

\* addEntry returns to recordAfterUpload: pendingBackups.delete(key)
AddEntryReturns(c) ==
  /\ Pruning(c)
  /\ adds.calls[c].todo = <<>>
  /\ pendingBackups' = Without(pendingBackups,
                               getBackupKey(adds.calls[c].local, adds.calls[c].remote, "upload"))
  /\ adds' = [adds EXCEPT !.calls[c].pc = "idle", !.calls[c].result = "ok"]
  /\ last' = Other
  /\ UNCHANGED <<index, histFs, nextId, snaps, persisted, storage>>
  /\ StoreFrame

(***************************************************************************)
(* StoreSpec: one transfer at a time, on a file system whose calls can     *)
(* fail, from any index file the constructor can find.                     *)
(***************************************************************************)
StoreInit == \E file \in IndexFiles : StoreLoaded(file)

storeRecordBefore == \E l \in LocalPaths : RecordBeforeUpload(1, l, MaxStoreAdds)
storeTransportReturns == TransportReturns(1)
addEntryBegin == AddEntryBegin(1, {"write"}, DeleteFaults \cup {"write"})
addEntryStep == AddEntryStep(1, DeleteFaults \cup {"write"})
addEntryReturns == AddEntryReturns(1)

\* time passes between two steps of a transfer
storeAdvance == NoPruning /\ Advance

\* the command clearHistory, the file system failing or not
storeClearHistory ==
  \E fault \in Faults(ClearFaults), removed \in SUBSET (DOMAIN histFs) :
    /\ NoPruning
    /\ adds.clears < MaxClears
    /\ fault = "rm" => removed # DOMAIN histFs
    /\ fault # "rm" => removed = {}
    /\ ClearHistory(fault, removed)
    /\ adds' = Faulted([adds EXCEPT !.clears = @ + 1], fault)
    /\ last' = Last("clearHistory", 0, fault = "none", 0, 0)
    /\ UNCHANGED <<pendingBackups, nextId, snaps>>
    /\ StoreFrame

StoreNext ==
  \/ storeRecordBefore
  \/ storeTransportReturns
  \/ addEntryBegin
  \/ addEntryStep
  \/ addEntryReturns
  \/ storeAdvance
  \/ storeClearHistory

StoreSpec == StoreInit /\ [][StoreNext]_vars

(***************************************************************************)
(* OverlapSpec: two transfers at a time on a file system that does not     *)
(* fail.  The second lane is taken only while the first is busy.           *)
(***************************************************************************)
OverlapInit == StoreLoaded(IndexFile("ok", <<>>))

overlapRecordBefore ==
  \E c \in Lanes, l \in LocalPaths :
    /\ c = 2 => adds.calls[1].pc # "idle"
    /\ RecordBeforeUpload(c, l, MaxAdds)
overlapTransportReturns == \E c \in Lanes : TransportReturns(c)
overlapAddEntryBegin == \E c \in Lanes : AddEntryBegin(c, {}, {})
overlapAddEntryStep == \E c \in Lanes : AddEntryStep(c, {})
overlapAddEntryReturns == \E c \in Lanes : AddEntryReturns(c)

OverlapNext ==
  \/ overlapRecordBefore
  \/ overlapTransportReturns
  \/ overlapAddEntryBegin
  \/ overlapAddEntryStep
  \/ overlapAddEntryReturns
  \/ storeAdvance

OverlapSpec == OverlapInit /\ [][OverlapNext]_vars

(***************************************************************************)
(* RollbackManager.  rollbackFile and rollbackBatch run from one prompt to *)
(* the next in one step; uploads of SyncManager go on between the prompts. *)
(* roll.selected is the position of the picked entry in roll.history,      *)
(* roll.log the answers of the user and the restores attempted.            *)
(***************************************************************************)
ConfirmAnswers == {"Rollback", "Preview", "Cancel", "dismissed"}
PreviewAnswers == {"Rollback", "Cancel", "dismissed"}
UploadAnswers == {"Upload", "Skip", "dismissed"}
BatchAnswers == {"Rollback", "Cancel", "dismissed"}

\* the lists of paths rollbackBatch can be given
BatchLists == UNION {[1..n -> LocalPaths] : n \in 0..MaxBatch}

RollInit ==
  /\ now = 0
  /\ cfg = [maxHistoryVersions |-> MaxVersionsCfg + 1, historyMaxAgeDays |-> MaxAgeDaysCfg]
  /\ histFs = <<>>
  /\ index = <<>>
  /\ pendingBackups = <<>>
  /\ xfer = Idle
  /\ nextId = 1
  /\ advances = 0
  /\ edits = 0
  /\ snaps = <<>>
  /\ outcome = <<>>
  /\ last = Other
  /\ activeProfile \in Profiles
  /\ localFs = [p \in LocalPaths |-> <<1>>]
  /\ SyncAtRest
  /\ SchedAtRest
  /\ ConnAtRest
  /\ RollAtRest
  /\ ProfAtRest
  /\ StoreAtRest

RollFrame ==
  UNCHANGED <<syncVars, schedVars, connVars, profVars, storeVars, now, cfg, activeProfile, index,
              advances, edits, outcome, last>>

NoTransfer == UNCHANGED <<histFs, pendingBackups, xfer, nextId, snaps>>

Answered(r, prompt, answer) == [r EXCEPT !.log = Append(@, [prompt |-> prompt, answer |-> answer])]

\* return of rollbackFile / rollbackBatch
Returns(r) == [r EXCEPT !.pc = "done"]

\* confirm === 'Cancel' || !confirm, with only the button Cancel declining
CancelledOnlyByButton(confirm) == confirm = "Cancel"

\* confirm === 'Cancel' || !confirm
RollbackCancelled(confirm) == confirm \in {"Cancel", "dismissed"}

\* the try block of rollbackFile from restoreFromHistory to the prompt for the
\* upload; copies: fs.copyFileSync does not throw
TryRestore(r, copies) ==
  LET entry == r.history[r.selected]
      res == restoreFromHistory(localFs, histFs, entry)
      ok == res.ok /\ copies
      logged == [r EXCEPT !.log = Append(@, [prompt |-> "restore", answer |-> entry.id,
                                             ok |-> ok])]
  IN  /\ localFs' = IF ok THEN res.localFs ELSE localFs
      /\ roll' = IF ok
                 THEN [logged EXCEPT !.pc = "upload", !.restored = TRUE]
                 ELSE Returns([logged EXCEPT !.shown = "Rollback failed"])

\* rollbackFile(localPath) up to showQuickPick
rollbackFile ==
  \E localPath \in LocalPaths :
    LET history == getHistoryForFile(index, localPath)
        r == [NoRoll EXCEPT !.kind = "file", !.paths = <<localPath>>, !.history = history,
                            !.count = roll.count + 1]
    IN  /\ roll.pc \in {"idle", "done"}
        /\ roll.count < MaxRollbacks
        /\ roll' = IF history = <<>> THEN Returns(r) ELSE [r EXCEPT !.pc = "pick"]
        /\ UNCHANGED localFs
        /\ NoTransfer
        /\ RollFrame

\* the answer of showQuickPick, 0 when it is dismissed
pickVersion ==
  \E k \in 0..Len(roll.history) :
    /\ roll.pc = "pick"
    /\ roll' = LET r == Answered(roll, "pick", k)
               IN  IF k = 0 THEN Returns(r) ELSE [r EXCEPT !.selected = k, !.pc = "confirm"]
    /\ UNCHANGED localFs
    /\ NoTransfer
    /\ RollFrame

\* the answer of the modal prompt; Preview runs previewRollback, which throws
\* out of rollbackFile when getBackupPath finds no blob
confirmRollback ==
  \E confirm \in ConfirmAnswers, copies \in BOOLEAN :
    LET r == Answered(roll, "confirm", confirm)
    IN  /\ roll.pc = "confirm"
        /\ IF RollbackCancelled(confirm)
           THEN /\ copies
                /\ roll' = Returns(r)
                /\ UNCHANGED localFs
           ELSE IF confirm = "Preview"
           THEN /\ copies
                /\ roll' = IF getBackupPath(histFs, roll.history[roll.selected]) = 0
                           THEN Returns([r EXCEPT !.threw = TRUE])
                           ELSE [r EXCEPT !.pc = "preview"]
                /\ UNCHANGED localFs
           ELSE TryRestore(r, copies)
        /\ NoTransfer
        /\ RollFrame

\* the answer of the prompt after the preview
previewConfirm ==
  \E answer \in PreviewAnswers, copies \in BOOLEAN :
    LET r == Answered(roll, "previewConfirm", answer)
    IN  /\ roll.pc = "preview"
        /\ IF answer # "Rollback"
           THEN /\ copies
                /\ roll' = Returns(r)
                /\ UNCHANGED localFs
           ELSE TryRestore(r, copies)
        /\ NoTransfer
        /\ RollFrame

\* the answer of the prompt for the upload; Upload calls
\* syncManager.uploadFile(localPath, selected.entry.remotePath), which runs up
\* to its transport call, or ends before it
uploadAnswer ==
  \E upload \in UploadAnswers, transfers \in BOOLEAN :
    LET r == Answered(roll, "upload", upload)
        localPath == roll.paths[1]
        remotePath == roll.history[roll.selected].remotePath
    IN  /\ roll.pc = "upload"
        /\ IF upload # "Upload"
           THEN /\ ~transfers
                /\ roll' = Returns(r)
                /\ NoTransfer
           ELSE /\ roll' = [r EXCEPT !.pc = "uploading",
                                     !.uploads = Append(@, [local |-> localPath,
                                                            remote |-> remotePath])]
                /\ IF transfers
                   THEN /\ xfer.pc = "idle"
                        /\ nextId <= MaxIds
                        /\ recordBefore("upload", localPath, remotePath)
                        /\ xfer' = [pc |-> "transport", op |-> "upload", local |-> localPath,
                                    remote |-> remotePath, id |-> nextId]
                        /\ nextId' = nextId + 1
                   ELSE NoTransfer
        /\ UNCHANGED localFs
        /\ RollFrame

\* uploadFile returned its result
uploadFileReturns ==
  /\ roll.pc = "uploading"
  /\ xfer.pc = "idle"
  /\ roll' = Returns(roll)
  /\ UNCHANGED localFs
  /\ NoTransfer
  /\ RollFrame

\* rollbackBatch(localPaths) up to its modal prompt
rollbackBatch ==
  \E localPaths \in BatchLists :
    LET r == [NoRoll EXCEPT !.kind = "batch", !.paths = localPaths, !.count = roll.count + 1]
    IN  /\ roll.pc \in {"idle", "done"}
        /\ roll.count < MaxRollbacks
        /\ roll' = IF localPaths = <<>> THEN Returns(r) ELSE [r EXCEPT !.pc = "confirmBatch"]
        /\ UNCHANGED localFs
        /\ NoTransfer
        /\ RollFrame

\* the answer of the modal prompt of rollbackBatch
confirmBatch ==
  \E confirm \in BatchAnswers :
    LET r == Answered(roll, "confirmBatch", confirm)
    IN  /\ roll.pc = "confirmBatch"
        /\ roll' = IF confirm # "Rollback" THEN Returns(r) ELSE [r EXCEPT !.pc = "batch", !.i = 1]
        /\ UNCHANGED localFs
        /\ NoTransfer
        /\ RollFrame

\* history[history.length - 1]
OldestOf(history) == history[Len(history)]

\* history[0]
NewestOf(history) == history[1]

\* one round of the loop of rollbackBatch; copies: fs.copyFileSync does not throw
batchStep ==
  \E copies \in BOOLEAN :
    LET filePath == roll.paths[roll.i]
        history == getHistoryForFile(index, filePath)
        res == restoreFromHistory(localFs, histFs, NewestOf(history))
        ok == res.ok /\ copies
        next == [roll EXCEPT !.i = @ + 1]
    IN  /\ roll.pc = "batch"
        /\ roll.i <= Len(roll.paths)
        /\ IF history = <<>>
           THEN /\ copies
                /\ roll' = next
                /\ UNCHANGED localFs
           ELSE /\ localFs' = IF ok THEN res.localFs ELSE localFs
                /\ roll' = [next EXCEPT
                              !.log = Append(@, [prompt |-> "restore",
                                                 answer |-> NewestOf(history).id, ok |-> ok]),
                              !.success = IF ok THEN @ + 1 ELSE @,
                              !.failed = IF ok THEN @ ELSE @ + 1,
                              !.errors = IF ok THEN @ ELSE Append(@, filePath)]
        /\ NoTransfer
        /\ RollFrame

\* the loop of rollbackBatch is over: the message with the counts
batchReturns ==
  /\ roll.pc = "batch"
  /\ roll.i > Len(roll.paths)
  /\ roll' = Returns([roll EXCEPT !.shown = IF roll.failed > 0 THEN "Rollback completed"
                                            ELSE "Successfully rolled back"])
  /\ UNCHANGED localFs
  /\ NoTransfer
  /\ RollFrame

\* the loop of rollbackBatch awaits no timer, prompt or transport call: no
\* other handler runs before it is over
BetweenAwaits == roll.pc # "batch"

rollRecordBefore ==
  /\ BetweenAwaits
  /\ roll.pc # "uploading"
  /\ recordBeforeUpload
rollPutFileOk == BetweenAwaits /\ putFileOk
rollTransportFail == BetweenAwaits /\ TransportFail
rollRecordAfter == BetweenAwaits /\ RecordAfter
rollEditLocal == BetweenAwaits /\ EditLocal
rollAdvance == BetweenAwaits /\ Advance

RollNext ==
  \/ rollRecordBefore
  \/ rollPutFileOk
  \/ rollTransportFail
  \/ rollRecordAfter
  \/ rollEditLocal
  \/ rollAdvance
  \/ rollbackFile
  \/ pickVersion
  \/ confirmRollback
  \/ previewConfirm
  \/ uploadAnswer
  \/ uploadFileReturns
  \/ rollbackBatch
  \/ confirmBatch
  \/ batchStep
  \/ batchReturns

RollSpec == RollInit /\ [][RollNext]_vars

(***************************************************************************)
(* ProfileManager.  prof.config is this.config, prof.settings what the     *)
(* workspace settings 'filesyncer' hold, prof.changed whether a change of  *)
(* them has yet to reach the listener of watchConfigChanges.  The calls    *)
(* are made one after the other; the listener runs at any await.           *)
(***************************************************************************)
ProfileNames == {"p1", "p2", "p3"}
Hosts == {"h1", "h2"}
ServerProfile(name, host) == [name |-> name, host |-> host]

NamesOf(profiles) == {profiles[k].name : k \in DOMAIN profiles}

\* the configurations the manager can be constructed over: profiles of
\* distinct names, and an active name that is empty or one of them
ValidConfigs ==
  {ProfileConfig(profiles, active) :
     profiles \in {ps \in UNION {[1..n -> {ServerProfile(name, "h1") : name \in ProfileNames}] :
                                   n \in 0..2} :
                     \A i, j \in DOMAIN ps : ps[i].name = ps[j].name => i = j},
     active \in ProfileNames \cup {""}}

ProfInit ==
  /\ HistAtRest
  /\ activeProfile \in Profiles
  /\ localFs = <<>>
  /\ SyncAtRest
  /\ SchedAtRest
  /\ ConnAtRest
  /\ RollAtRest
  /\ StoreAtRest
  /\ \E settings \in ValidConfigs :
       /\ settings.activeProfile \in NamesOf(settings.profiles) \cup {""}
       /\ prof = ProfLoaded(settings)

ProfFrame == UNCHANGED <<histVars, syncVars, schedVars, connVars, rollVars, storeVars>>

\* profiles.findIndex(p => p.name === name), 0 for none
FindIndex(profiles, name) ==
  IF name \in NamesOf(profiles)
  THEN CHOOSE k \in DOMAIN profiles :
         /\ profiles[k].name = name
         /\ \A j \in 1..(k - 1) : profiles[j].name # name
  ELSE 0

\* ProfileManager.getProfile(name): whether there is one
getProfile(name) == FindIndex(prof.config.profiles, name) # 0

CanCallProfiles == prof.call.pc = "idle" /\ prof.calls < MaxProfileCalls

ProfCall(op, name, result) ==
  [pc |-> "idle", op |-> op, name |-> name, result |-> result, before |-> prof.config]

\* the listener of watchConfigChanges: this.config = this.loadConfig()
watchConfigChanges ==
  /\ prof.changed
  /\ prof' = [prof EXCEPT !.config = prof.settings, !.changed = FALSE]
  /\ ProfFrame

\* addProfile(profile): replaced by name or pushed, and the profiles written
addProfile ==
  \E profile \in {ServerProfile(name, host) : name \in ProfileNames, host \in Hosts} :
    /\ CanCallProfiles
    /\ LET existingIndex == FindIndex(prof.config.profiles, profile.name)
           profiles == IF existingIndex > 0
                       THEN [prof.config.profiles EXCEPT ![existingIndex] = profile]
                       ELSE Append(prof.config.profiles, profile)
       IN  prof' = [prof EXCEPT !.config.profiles = profiles,
                                !.settings.profiles = profiles,
                                !.changed = TRUE,
                                !.call = ProfCall("addProfile", profile.name, "returned"),
                                !.calls = @ + 1]
    /\ ProfFrame

\* setActiveProfile(name) up to await update('activeProfile', name)
setActiveProfile ==
  \E name \in ProfileNames :
    /\ CanCallProfiles
    /\ prof' = IF ~getProfile(name)
               THEN [prof EXCEPT !.call = ProfCall("setActiveProfile", name, "threw"),
                                 !.calls = @ + 1]
               ELSE [prof EXCEPT !.settings.activeProfile = name,
                                 !.changed = TRUE,
                                 !.call = [ProfCall("setActiveProfile", name, "none")
                                             EXCEPT !.pc = "updated"]]
    /\ ProfFrame

\* setActiveProfile after its await: this.config.activeProfile = name
setActiveProfileReturns ==
  /\ prof.call.pc = "updated"
  /\ prof' = [prof EXCEPT !.config.activeProfile = prof.call.name,
                          !.call.pc = "idle",
                          !.call.result = "returned",
                          !.calls = @ + 1]
  /\ ProfFrame

\* the active name removeProfile(name) leaves in this.config, keeping it
ActiveAfterRemoveKept(profiles, active, name) == active

\* the active name removeProfile(name) leaves in this.config, profiles being
\* the profiles that remain
ActiveAfterRemove(profiles, active, name) ==
  IF active = name THEN (IF Len(profiles) > 0 THEN profiles[1].name ELSE "") ELSE active

\* removeProfile(name) up to its first await: the profiles filtered, and
\* either the new active name or the profiles written
removeProfile ==
  \E name \in ProfileNames :
    /\ CanCallProfiles
    /\ LET profiles == SelectSeq(prof.config.profiles, LAMBDA p : p.name # name)
           active == ActiveAfterRemove(profiles, prof.config.activeProfile, name)
           config == ProfileConfig(profiles, active)
       IN  prof' = IF prof.config.activeProfile = name
                   THEN [prof EXCEPT !.config = config,
                                     !.settings.activeProfile = active,
                                     !.changed = TRUE,
                                     !.call = [ProfCall("removeProfile", name, "none")
                                                 EXCEPT !.pc = "removing"]]
                   ELSE [prof EXCEPT !.config = config,
                                     !.settings.profiles = profiles,
                                     !.changed = TRUE,
                                     !.call = ProfCall("removeProfile", name, "returned"),
                                     !.calls = @ + 1]
    /\ ProfFrame

\* removeProfile after its first await: update('profiles', this.config.profiles)
removeProfileWrites ==
  /\ prof.call.pc = "removing"
  /\ prof' = [prof EXCEPT !.settings.profiles = prof.config.profiles,
                          !.changed = TRUE,
                          !.call.pc = "idle",
                          !.call.result = "returned",
                          !.calls = @ + 1]
  /\ ProfFrame

ProfNext ==
  \/ watchConfigChanges
  \/ addProfile
  \/ setActiveProfile
  \/ setActiveProfileReturns
  \/ removeProfile
  \/ removeProfileWrites

ProfSpec == ProfInit /\ [][ProfNext]_vars

(***************************************************************************)
(* Properties of SyncManager, stated of SyncSpec.                          *)
(***************************************************************************)
Events(e) == SelectSeq(log.events, LAMBDA x : x.e = e)
EventsBefore(k, e) == {j \in 1..(k - 1) : log.events[j].e = e}

\* the history is as it was when the operation in progress started
HistoryUntouched ==
  /\ index = log.index
  /\ histFs = log.histFs
  /\ pendingBackups = log.pendingBackups

\* filePath matches an exclude pattern of the profile, with or without dot matching
MatchesExclude(filePath) ==
  \E i \in 1..Len(exclude) :
    minimatch(filePath, exclude[i], FALSE) \/ minimatch(filePath, exclude[i], TRUE)

\* C11: in uploadFile and downloadFile the snapshot taken by recordBefore holds
\* what the destination of the transfer, when it was there, held before the
\* transfer: the remote target file for uploadFile, the local target file for
\* downloadFile.
C11_SnapshotIsDestinationPreImage ==
  \A k \in 1..Len(log.events) :
    (/\ sync.kind \in Single
     /\ log.events[k].e = "before"
     /\ log.events[k].ok
     /\ log.events[k].pre # <<>>)
    => <<snaps[log.events[k].id].content>> = log.events[k].pre

\* C12: in uploadFile and downloadFile, with confirmBeforeOverwrite set and the
\* destination there, the transfer is made only after the answer Overwrite; on
\* any other answer the operation ends with no snapshot, no transport call, no
\* pending or indexed entry, and the result success, 0 files, no errors.
C12_DeclinedOverwriteSkips ==
  sync.kind \in Single =>
    /\ \A k \in 1..Len(log.events) :
         (/\ log.events[k].e = "before"
          /\ cfg.confirmBeforeOverwrite
          /\ log.events[k].pre # <<>>)
         => \E j \in EventsBefore(k, "ask") : log.events[j].ok
    /\ (\E k \in 1..Len(log.events) : log.events[k].e = "ask" /\ ~log.events[k].ok)
       => /\ sync.pc = "done"
          /\ Len(log.events) = 1
          /\ HistoryUntouched
          /\ sync.result = SyncResult(TRUE, 0, <<>>)

\* C12 witness: uploadFile or downloadFile ended by an answer other than Overwrite.
C12_Witness ==
  /\ sync.kind \in Single /\ sync.pc = "done"
  /\ Len(log.events) = 1 /\ log.events[1].e = "ask" /\ ~log.events[1].ok

\* C13: in uploadFolder, downloadFolder and syncAll, with confirmBeforeOverwrite
\* set, a file whose destination is there is transferred only after the user
\* confirmed the overwrite for it.
C13_BulkOverwriteConfirmed ==
  \A k \in 1..Len(log.events) :
    (/\ sync.kind \in Bulk
     /\ cfg.confirmBeforeOverwrite
     /\ log.events[k].e = "transport"
     /\ \E j \in EventsBefore(k, "before") :
          log.events[j].id = log.events[k].id /\ log.events[j].pre # <<>>)
    => \E j \in EventsBefore(k, "ask") :
         log.events[j].ok /\ log.events[j].local = log.events[k].local

\* C14: a bulk operation that ran its loop to the end made one transport call
\* per enumerated file, in enumeration order; filesProcessed is the number of
\* files less the failed ones; errors names the failed files, one entry each;
\* no entry of a failed file is in the index.
C14_PartialFailureIsolation ==
  (sync.kind \in Bulk /\ sync.pc = "done" /\ sync.result.success) =>
    LET calls == Events("transport")
        failed == SelectSeq(calls, LAMBDA t : ~t.ok)
    IN  /\ Len(calls) = Len(sync.files)
        /\ \A k \in 1..Len(calls) :
             calls[k].local = BulkLocal(sync, k) /\ calls[k].remote = BulkRemote(sync, k)
        /\ sync.result.filesProcessed = Len(sync.files) - Len(failed)
        /\ Len(sync.result.errors) = Len(failed)
        /\ \A k \in 1..Len(failed) :
             sync.result.errors[k].file =
               (IF sync.kind = "downloadFolder" THEN failed[k].remote ELSE failed[k].local)
        /\ \A k \in 1..Len(failed) : failed[k].id \notin IndexIds(index)

\* C14 witness: a bulk operation ended in which a file failed and a later one went through.
C14_Witness ==
  /\ sync.kind \in Bulk /\ sync.pc = "done" /\ sync.result.success
  /\ \E j, k \in 1..Len(Events("transport")) :
       j < k /\ ~Events("transport")[j].ok /\ Events("transport")[k].ok

\* C15: syncAll never snapshots, transfers or counts a local file whose path
\* matches an exclude pattern of the profile, with or without dot matching; with
\* exclude ["*.l"], the tree {a.t, b.l} and a working transport the result is
\* success, 1 file, no errors.
C15_SyncAllExcludes ==
  sync.kind = "syncAll" =>
    /\ \A k \in 1..Len(log.events) : ~MatchesExclude(log.events[k].local)
    /\ sync.pc = "done" =>
         sync.result.filesProcessed = Len(SelectSeq(Events("transport"), LAMBDA t : t.ok))
    /\ (/\ sync.pc = "done"
        /\ exclude = <<PatternLog>>
        /\ DOMAIN localFs = {FileTxt, FileLog}
        /\ ~sync.token
        /\ \A k \in 1..Len(sync.result.errors) : sync.result.errors[k].file = <<>>
        /\ \A k \in 1..Len(sync.result.errors) :
             sync.result.errors[k].error \notin {"connect", "enumerate",
                                                 "No active server profile",
                                                 "No workspace folder open"})
       => /\ sync.result = SyncResult(TRUE, 1, <<>>)
          /\ Len(Events("transport")) = 1
          /\ Events("transport")[1].local = FileTxt

\* C15 witness: syncAll of the tree {a.t, .l} with exclude ["*.l"] has sent one file.
C15_Witness ==
  /\ sync.kind = "syncAll" /\ sync.pc = "done"
  /\ exclude = <<PatternLog>> /\ DOMAIN localFs = {FileTxt, FileDot}
  /\ sync.result = SyncResult(TRUE, 1, <<>>)

\* C16: uploadFolder and downloadFolder never transfer a file whose path relative
\* to the folder matches an exclude pattern of the profile.
C16_FolderOperationsExclude ==
  \A k \in 1..Len(log.events) :
    (sync.kind \in {"uploadFolder", "downloadFolder"} /\ log.events[k].e = "transport")
    => ~MatchesExclude(log.events[k].local)

\* C17: the turn of the loop that sees the cancellation requested ends the bulk
\* operation without a further snapshot or transport call; what was transferred
\* and committed before stays, and filesProcessed still counts it.
C17_CancellationKeepsWhatWasDone ==
  [][(sync.pc = "loop" /\ sync.token /\ sync.i < Len(sync.files)) =>
       /\ sync'.pc = "done"
       /\ log' = log
       /\ localFs' = localFs /\ remoteFs' = remoteFs
       /\ index' = index /\ histFs' = histFs /\ pendingBackups' = pendingBackups
       /\ snaps' = snaps
       /\ sync'.result.filesProcessed = sync.result.filesProcessed
       /\ sync'.result.filesProcessed
            = Len(SelectSeq(Events("transport"), LAMBDA t : t.ok))
    ]_vars

\* C17 witness: a bulk operation ended by the cancellation after a file went through.
C17_Witness ==
  /\ sync.kind \in Bulk /\ sync.pc = "done" /\ sync.token
  /\ ~sync.result.success /\ sync.result.filesProcessed > 0
  /\ sync.i < Len(sync.files)

\* C18: without an active profile, and for syncAll without a workspace folder,
\* the operation returns success = false, 0 files and an error, having made no
\* transport call, taken no snapshot and changed nothing in the history.
C18_PreconditionFailure ==
  (/\ sync.pc # "idle"
   /\ activeProfile \notin Profiles \/ (sync.kind = "syncAll" /\ ~workspaceFolder))
  => /\ sync.pc = "done"
     /\ ~sync.result.success
     /\ sync.result.filesProcessed = 0
     /\ sync.result.errors # <<>>
     /\ log.events = <<>>
     /\ HistoryUntouched

\* C18 witness: syncAll has returned for want of a workspace folder, a profile being active.
C18_Witness ==
  /\ sync.pc = "done" /\ sync.kind = "syncAll"
  /\ ~workspaceFolder /\ activeProfile \in Profiles

(***************************************************************************)
(* Properties of SyncScheduler, stated of SchedSpec.                       *)
(***************************************************************************)
PendingFor(path) == {t \in DOMAIN timers : timers[t].path = path}

\* C19: per-path debounce.  There is at most one pending timer per local path,
\* and a timer that fires is the one set by the last save of its path: saves of
\* a path that each arrive before the previous timer fired cause one upload,
\* started after the last of them.
C19_OneTimerPerPath ==
  /\ \A d \in Documents : Cardinality(PendingFor(d.fsPath)) <= 1
  /\ \A k \in 1..Len(sched.started) : sched.started[k].newest

\* C20: after cancelAllScheduledUploads() or dispose() no timer set before it
\* starts an upload.
C20_NoUploadAfterDisposal ==
  \A k \in 1..Len(sched.started) : sched.started[k].setAt = sched.started[k].cancels

\* fsPath lies under the workspace sync root, and its path relative to the root
UnderRoot(fsPath) ==
  /\ Len(fsPath) > Len(WorkspaceRoot)
  /\ SubSeq(fsPath, 1, Len(WorkspaceRoot)) = WorkspaceRoot
RelativeToRoot(fsPath) == SubSeq(fsPath, Len(WorkspaceRoot) + 1, Len(fsPath))

\* C21: a save starts a debounce timer only if, at that save, auto-upload is
\* enabled, a profile is active, the saved path lies under the workspace sync
\* root and its path relative to the root matches no exclude pattern of the
\* profile; any other save starts no timer.
C21_TimerOnlyForEligibleSave ==
  [][sched'.set # sched.set =>
       /\ isAutoUploadEnabled
       /\ activeProfile \in Profiles
       /\ workspaceFolder
       /\ UnderRoot(sched'.path)
       /\ ~MatchesExclude(RelativeToRoot(sched'.path))
    ]_vars

\* the pending timers of a path and its entry in the timer map
TimerState(ts, map, path) ==
  <<{t \in DOMAIN ts : ts[t].path = path},
    IF path \in DOMAIN map THEN <<map[path]>> ELSE <<>>>>

\* C22: a save, a timer firing, an upload completion or cancelScheduledUpload
\* for a path P leaves the pending timer of every other path Q and the entry
\* of Q in the timer map as they were.
C22_TimersIndependentPerPath ==
  [][sched'.path # <<>> =>
       \A d \in Documents :
         d.fsPath # sched'.path =>
           TimerState(timers', debounceTimers', d.fsPath)
             = TimerState(timers, debounceTimers, d.fsPath)
    ]_vars

\* C22 witness: the timer of a path has fired and its upload has returned while
\* the timer of another path is pending and in the timer map.
C22_Witness ==
  /\ sched.path # <<>>
  /\ \E k \in 1..Len(sched.started) : sched.started[k].path = sched.path
  /\ sched.path \notin DOMAIN debounceTimers
  /\ inflight = <<>>
  /\ \E d \in Documents :
       /\ d.fsPath # sched.path
       /\ PendingFor(d.fsPath) # {}
       /\ d.fsPath \in DOMAIN debounceTimers

(***************************************************************************)
(* Properties of SFTPManager, stated of ConnSpec.                          *)
(***************************************************************************)
ConnectedClients(profileName) ==
  {k \in DOMAIN clients : clients[k].profile = profileName /\ clients[k].connected}

\* C23: at any time at most one connected client exists for a profile name, also
\* when two operations call ensureConnected / connect for it concurrently, and
\* every connected client is the one tracked in the connection map.
C23_OneConnectionPerProfile ==
  \A profileName \in Profiles :
    /\ Cardinality(ConnectedClients(profileName)) <= 1
    /\ \A k \in ConnectedClients(profileName) :
         /\ profileName \in DOMAIN connections
         /\ connections[profileName].client = k

(***************************************************************************)
(* Properties of HistoryStorage under overlapping transfers, stated of     *)
(* OverlapSpec.                                                            *)
(***************************************************************************)
\* the stores two addEntry calls leave when one runs after the other
SerialOutcomes(base, a, b, t) ==
  {addEntry(addEntry(base, a, cfg, t), b, cfg, t),
   addEntry(addEntry(base, b, cfg, t), a, cfg, t)}

\* C24: when two addEntry calls have overlapped and both have finished, the index
\* and the blobs are those of running the two calls one after the other in some
\* order, and the persisted index equals the in-memory index.
C24_IndexMutationsSerialized ==
  (adds.overlap.on /\ NoPruning) =>
    /\ [index |-> index, fs |-> histFs]
         \in SerialOutcomes(adds.overlap.base, adds.overlap.first, adds.overlap.second,
                            adds.overlap.t)
    /\ persisted = saveIndex(index)

(***************************************************************************)
(* Properties of HistoryStorage on a file system that can fail, stated of  *)
(* StoreSpec.                                                              *)
(***************************************************************************)
Ids(idx) == {idx[k].id : k \in 1..Len(idx)}

\* C28: after clearHistory() has completed, the in-memory index and the persisted
\* index are empty and no version directory or blob remains.
C28_ClearHistoryLeavesNothing ==
  last.op = "clearHistory" =>
    /\ index = <<>>
    /\ persisted = saveIndex(<<>>)
    /\ histFs = <<>>

\* the index file could not be read or parsed when the store was created
LoadFailed == adds.loaded \in {"unreadable", "unparsable"}

\* C29: when the index file cannot be read or parsed at construction, the store
\* starts with an empty index and stays usable: no call of the store throws, an
\* entry given to addEntry is in the index and getHistoryForFile returns it.
C29_LoadFailureFallsBackToEmpty ==
  LoadFailed =>
    /\ storage = "ready"
    /\ nextId = 1 => index = <<>>
    /\ adds.calls[1].result # "threw"
    /\ (adds.calls[1].result = "ok" /\ adds.clears = 0
          /\ \A k \in 1..Len(adds.calls[1].deleted) :
               adds.calls[1].deleted[k].id # adds.calls[1].id) =>
         \E k \in 1..Len(getHistoryForFile(index, adds.calls[1].local)) :
           getHistoryForFile(index, adds.calls[1].local)[k].id = adds.calls[1].id

\* C29 witness: the index file was corrupt, a transfer was recorded, addEntry
\* returned, and the entry is in the index and in the index file.
C29_Witness ==
  /\ LoadFailed
  /\ adds.calls[1].result = "ok"
  /\ adds.calls[1].id \in Ids(index)
  /\ persisted = saveIndex(index)
  /\ getHistoryForFile(index, adds.calls[1].local) # <<>>

\* the step is a deleteEntry of the running addEntry in which unlinkSync,
\* rmdirSync or readdirSync threw
BlobRemovalFailed ==
  /\ Len(adds'.calls[1].deleted) = Len(adds.calls[1].deleted) + 1
  /\ adds'.calls[1].deleted[Len(adds'.calls[1].deleted)].fault \in DeleteFaults

\* C30: when removing the blob or the directory of a pruned entry fails, the index
\* record of the entry is removed and persisted all the same, and pruning goes on
\* with the rest of the entries marked for deletion.
C30_BlobRemovalFailureSwallowed ==
  [][BlobRemovalFailed =>
       LET call == adds'.calls[1]
           n == Len(call.deleted)
       IN  /\ call.deleted[n].id \notin Ids(index')
           /\ call.deleted[n].id = call.marked[n].id
           /\ persisted' = saveIndex(index')
           /\ call.pc = "pruning"
           /\ call.todo = SubSeq(call.marked, n + 1, Len(call.marked))]_vars

\* C30 witness: addEntry returned without error after a pruning of two entries in
\* which the removal of the first entry's blob failed; the blob is still there,
\* both records are gone.
C30_Witness ==
  /\ adds.calls[1].result = "ok"
  /\ Len(adds.calls[1].deleted) = 2
  /\ adds.calls[1].deleted[1].fault = "unlink"
  /\ adds.calls[1].deleted[2].fault = "none"
  /\ adds.calls[1].marked[1].id \notin Ids(index)
  /\ adds.calls[1].marked[2].id \notin Ids(index)
  /\ getBackupPath(histFs, adds.calls[1].marked[1]) # 0
  /\ persisted = saveIndex(index)

(***************************************************************************)
(* Properties of RollbackManager, stated of RollSpec.                      *)
(***************************************************************************)
\* the entries of the index for a path
EntriesOf(localPath) == {e \in Range(index) : e.localPath = localPath}

\* the restores logged by the running operation
Attempts(r) == SelectSeq(r.log, LAMBDA ev : ev.prompt = "restore")

\* the rounds of the loop whose path has history
WithHistory(r) == {k \in 1..Len(r.paths) : EntriesOf(r.paths[k]) # {}}

\* C25: in rollbackBatch, a round whose path has history attempts exactly one
\* restore, of an entry of that path that no other entry of it is newer than, and
\* the loop goes on whether the restore failed or not; a round whose path has no
\* history attempts nothing; when rollbackBatch returns, succeeded + failed is the
\* number of paths that have history and nothing was thrown.
C25_BatchRestoresNewestOfEachPath ==
  [][(roll.pc = "batch" /\ roll' # roll) =>
       IF roll.i <= Len(roll.paths)
       THEN LET filePath == roll.paths[roll.i]
            IN  /\ roll'.pc = "batch"
                /\ roll'.i = roll.i + 1
                /\ IF EntriesOf(filePath) = {}
                   THEN /\ Attempts(roll') = Attempts(roll)
                        /\ roll'.success = roll.success
                        /\ roll'.failed = roll.failed
                        /\ localFs' = localFs
                   ELSE /\ Len(Attempts(roll')) = Len(Attempts(roll)) + 1
                        /\ \E e \in EntriesOf(filePath) :
                             /\ e.id = Attempts(roll')[Len(Attempts(roll'))].answer
                             /\ \A o \in EntriesOf(filePath) : o.timestamp <= e.timestamp
                        /\ roll'.success + roll'.failed = roll.success + roll.failed + 1
                        /\ (roll'.failed = roll.failed) = Attempts(roll')[Len(Attempts(roll'))].ok
       ELSE /\ roll'.pc = "done"
            /\ ~roll'.threw
            /\ roll'.success + roll'.failed = Cardinality(WithHistory(roll))
            /\ Len(Attempts(roll')) = Cardinality(WithHistory(roll))]_vars

\* C25 witness: rollbackBatch has returned after two rounds for two paths with
\* history, the first restore failed and the second succeeded; the path of the
\* second has two entries of different age.
C25_Witness ==
  /\ roll.kind = "batch"
  /\ roll.pc = "done"
  /\ Len(roll.paths) = 2
  /\ Len(Attempts(roll)) = 2
  /\ ~Attempts(roll)[1].ok
  /\ Attempts(roll)[2].ok
  /\ roll.success = 1
  /\ roll.failed = 1
  /\ \E e, o \in EntriesOf(roll.paths[2]) : o.timestamp < e.timestamp

\* the prompts at which the user declined or dismissed the rollback
Skipped(ev) ==
  \/ ev.prompt = "pick" /\ ev.answer = 0
  \/ ev.prompt = "confirm" /\ ev.answer \in {"Cancel", "dismissed"}
  \/ ev.prompt = "previewConfirm" /\ ev.answer \in {"Cancel", "dismissed"}

\* C26: a step of rollbackFile changes the local file only when the user has
\* picked an entry and the answer of that step is Rollback, to the first prompt or
\* to the one after the preview; a step in which the user declines or dismisses
\* returns without an error and changes no file, no index entry, no blob and no
\* transfer; uploadFile is called only at the answer Upload after a restore that
\* succeeded.
C26_RollbackOnlyAfterConfirmation ==
  [][(roll'.kind = "file" /\ roll' # roll) =>
       LET answered == Len(roll'.log) > Len(roll.log)
           first == IF Len(roll'.log) > Len(roll.log) THEN roll'.log[Len(roll.log) + 1]
                    ELSE [prompt |-> "", answer |-> ""]
       IN  /\ localFs' # localFs =>
                /\ roll.selected \in 1..Len(roll.history)
                /\ first.prompt \in {"confirm", "previewConfirm"}
                /\ first.answer = "Rollback"
                /\ first.prompt = "previewConfirm" =>
                     roll.log[Len(roll.log)] = [prompt |-> "confirm", answer |-> "Preview"]
           /\ (answered /\ Skipped(first)) =>
                /\ roll'.pc = "done"
                /\ roll'.shown = ""
                /\ ~roll'.threw
                /\ UNCHANGED <<localFs, index, histFs, pendingBackups, xfer, outcome, syncVars>>
           /\ Len(roll'.uploads) > Len(roll.uploads) =>
                /\ roll.restored
                /\ first = [prompt |-> "upload", answer |-> "Upload"]
                /\ roll.log[Len(roll.log)].prompt = "restore"
                /\ roll.log[Len(roll.log)].ok
                /\ roll'.uploads = <<[local |-> roll.paths[1],
                                      remote |-> roll.history[roll.selected].remotePath]>>]_vars

\* C26 witness: the user picked an entry, asked for the preview, answered Rollback,
\* the restore changed the local file, and the upload asked for was started.
C26_Witness ==
  /\ roll.kind = "file"
  /\ roll.pc = "uploading"
  /\ Len(roll.log) = 5
  /\ roll.log[1].prompt = "pick"
  /\ roll.log[2] = [prompt |-> "confirm", answer |-> "Preview"]
  /\ roll.log[3] = [prompt |-> "previewConfirm", answer |-> "Rollback"]
  /\ roll.log[4].prompt = "restore" /\ roll.log[4].ok
  /\ roll.log[5] = [prompt |-> "upload", answer |-> "Upload"]
  /\ localFs[roll.paths[1]] # <<1>>
  /\ xfer.pc = "transport"

\* C26 witness of a skip: the user picked an entry and dismissed the prompt.
C26_SkipWitness ==
  /\ roll.kind = "file"
  /\ roll.pc = "done"
  /\ Len(roll.log) = 2
  /\ roll.log[2] = [prompt |-> "confirm", answer |-> "dismissed"]

\* C27: getHistoryForFile(localPath) returns exactly the entries of the index for
\* localPath, each once, from newest to oldest, and leaves the index as it is.
C27_HistoryNewestFirst ==
  [][(roll'.kind = "file" /\ roll.pc \in {"idle", "done"} /\ roll' # roll) =>
       LET history == roll'.history
           localPath == roll'.paths[1]
       IN  /\ Len(history) = Cardinality(EntriesOf(localPath))
           /\ {history[k] : k \in 1..Len(history)} = EntriesOf(localPath)
           /\ \A i, j \in 1..Len(history) :
                i < j => history[i].timestamp >= history[j].timestamp
           /\ index' = index]_vars

\* C27 witness: the history returned for a path has two entries, and the first
\* is newer than the second while it is after it in the index.
C27_Witness ==
  /\ roll.kind = "file"
  /\ Len(roll.history) = 2
  /\ roll.history[1].timestamp > roll.history[2].timestamp
  /\ \E i, j \in 1..Len(index) :
       /\ i < j
       /\ index[j] = roll.history[1]
       /\ index[i] = roll.history[2]

(***************************************************************************)
(* Further properties of the history store, stated of Spec.                *)
(***************************************************************************)
\* the positions of the index whose entry has the triple
IndexedOf(idx, localPath, operation, profileName) ==
  {k \in 1..Len(idx) : /\ idx[k].localPath = localPath
                       /\ idx[k].operation = operation
                       /\ idx[k].profileName = profileName}

\* C31: the ordinal given to a new snapshot of a (local path, operation, profile)
\* triple is 1 plus the number of entries of the index with exactly that triple,
\* and the blob is named by it; pending and uncommitted snapshots do not count.
C31_OrdinalCountsIndexedEntries ==
  [][(nextId' = nextId + 1 /\ nextId \in DOMAIN snaps') =>
       LET snap == snaps'[nextId]
           n == 1 + Cardinality(IndexedOf(index, snap.localPath, snap.operation,
                                          snap.profileName))
       IN  /\ snap.ordinal = n
           /\ snap.name = Basename(snap.localPath) \o <<"_", "v">> \o NumToString(n)]_vars

\* C31 witness: a second snapshot of a path was taken for the other operation
\* while the index holds the entry of the first: its ordinal is 1 again.
C31_Witness ==
  /\ 1 \in DOMAIN snaps /\ 2 \in DOMAIN snaps
  /\ snaps[1].localPath = snaps[2].localPath
  /\ snaps[1].operation # snaps[2].operation
  /\ \E k \in 1..Len(index) : index[k].id = 1
  /\ snaps[2].ordinal = 1

\* C31 witness of an uncommitted snapshot: the first transfer of a path failed,
\* the second snapshot of the same triple has ordinal 1 as well.
C31_PendingWitness ==
  /\ 1 \in DOMAIN snaps /\ 2 \in DOMAIN snaps
  /\ snaps[1].localPath = snaps[2].localPath
  /\ snaps[1].operation = snaps[2].operation
  /\ 1 \in DOMAIN outcome /\ outcome[1] = "failed"
  /\ snaps[2].ordinal = 1

(***************************************************************************)
(* Further properties of HistoryStorage, stated of StoreSpec.              *)
(***************************************************************************)
\* the step pushed an entry, deleted one, or ran clearHistory to its end
IndexMutated ==
  \/ ~Pruning(1) /\ adds'.calls[1].pc = "pruning"
  \/ Len(adds'.calls[1].deleted) > Len(adds.calls[1].deleted)
  \/ adds'.clears > adds.clears /\ index' = <<>> /\ histFs' = <<>>

\* the last writeFileSync of the step threw
LastWriteFailed ==
  IF Len(adds'.calls[1].deleted) > Len(adds.calls[1].deleted)
  THEN adds'.calls[1].deleted[Len(adds'.calls[1].deleted)].fault = "write"
  ELSE adds'.faults > adds.faults

\* C32: whenever addEntry has pushed, a pruning deletion or clearHistory has
\* completed, and the write did not fail, the index file holds exactly the
\* entries of the in-memory index.
C32_PersistedOnEveryMutation ==
  [][(IndexMutated /\ ~LastWriteFailed) =>
       /\ persisted'.state = "ok"
       /\ persisted'.entries = index']_vars

\* C32 witness: an addEntry that pruned an entry has returned, a clearHistory
\* ran after it, and no write failed: the index file is the empty index.
C32_Witness ==
  /\ adds.faults = 0
  /\ adds.clears = 1
  /\ adds.calls[1].result = "ok"
  /\ adds.calls[1].deleted # <<>>
  /\ index = <<>>
  /\ persisted = [state |-> "ok", entries |-> <<>>]

\* C32 witness of a pruning: addEntry has pushed an entry and deleted another,
\* and the index file holds the one entry left.
C32_PruneWitness ==
  /\ adds.faults = 0
  /\ adds.calls[1].result = "ok"
  /\ Len(adds.calls[1].deleted) = 1
  /\ Len(index) = 1
  /\ persisted = [state |-> "ok", entries |-> index]

\* ---------------------------------------------------------------------------
\* Further properties of SyncScheduler, stated of SchedSpec and SchedFairSpec
\* ---------------------------------------------------------------------------

\* the uploads of a path that its timers started after the last save of it
UploadsAfterLastSave(path) ==
  {k \in DOMAIN sched.started :
     /\ sched.started[k].path = path
     /\ sched.started[k].set >= sched.lastSave[path].timer}

\* the paths whose last scheduled upload was not cancelled and not disposed of
Uncancelled == {path \in DOMAIN sched.lastSave : ~sched.lastSave[path].cancelled}

\* the last save of the path has had its one upload, and nothing is left of it
Settled(path) ==
  /\ PendingFor(path) = {}
  /\ path \notin DOMAIN debounceTimers
  /\ Cardinality(UploadsAfterLastSave(path)) = 1

\* C33: after the last save of an eligible path, when the scheduler is not
\* disposed and the upload not cancelled, the timer eventually fires, exactly
\* one upload of the path is invoked, and no timer entry of the path remains
\* in the timer map.
C33_LastSaveUploadsOnce ==
  <>[](\A path \in Uncancelled : Settled(path))

\* C33, the safety part: nothing cancelled, a path never has two uploads
\* started after its last save.
C33_AtMostOneUploadAfterLastSave ==
  \A path \in Uncancelled : Cardinality(UploadsAfterLastSave(path)) <= 1

\* C33 counterexample state: a path saved three times, nothing cancelled,
\* nothing pending or in flight any more, and two uploads of it were started
\* after its last save.
C33_TwoUploadsAfterLastSave ==
  \E path \in Uncancelled :
    /\ timers = <<>>
    /\ inflight = <<>>
    /\ debounceTimers = <<>>
    /\ Cardinality(UploadsAfterLastSave(path)) = 2

\* a timer fires in this step and starts the upload of its path
UploadStarts == Len(sched'.started) = Len(sched.started) + 1

\* C34: at the moment a debounce timer fires and the upload of its path is
\* started, auto-upload is enabled and the path is one shouldAutoUpload
\* accepts under the profile and the exclude patterns of that moment.
C34_ConsultedWhenTimerFires ==
  [][UploadStarts =>
       /\ isAutoUploadEnabled
       /\ shouldAutoUpload(Document("file", sched'.path))]_vars

\* ---------------------------------------------------------------------------
\* Further properties of HistoryManager, stated of OverlapSpec
\* ---------------------------------------------------------------------------

\* recordAfterUpload of the transfer of lane c runs in this step
RecordAfterRuns(c) == adds.calls[c].pc = "returned" /\ adds'.calls[c].pc # "returned"

\* C35: the recordAfterUpload of a successful transfer of an existing file
\* commits one entry, the one its own recordBeforeUpload snapshotted, also
\* when another transfer with the same key is in flight.
C35_CommitsOwnSnapshot ==
  [][\A c \in Lanes :
       RecordAfterRuns(c) =>
         /\ adds'.calls[c].pc = "pruning"
         /\ adds'.calls[c].base.entry.id = adds.calls[c].id]_vars

\* ---------------------------------------------------------------------------
\* Further properties of the history store, stated of StoreSpec
\* ---------------------------------------------------------------------------

\* C36: no call of the file system having failed, every entry of the index has
\* the blob that was written for it on disk, also an entry that
\* recordAfterUpload committed after a clearHistory that ran between its
\* recordBeforeUpload and its recordAfterUpload.
C36_IndexedEntriesHaveBlobs ==
  adds.faults = 0 =>
    \A k \in DOMAIN index : index[k].id \in DOMAIN snaps => OwnBlob(histFs, index[k].id)

\* C36 counterexample state: clearHistory ran while the one transfer there was
\* had its snapshot pending, nothing failed, and the entry committed
\* afterwards has no blob.
C36_CommittedAfterClearWithoutBlob ==
  /\ adds.faults = 0
  /\ adds.clears = 1
  /\ nextId = 2
  /\ Len(index) = 1
  /\ index[1].id = 1
  /\ ~OwnBlob(histFs, 1)

\* the remote path lies below the remote root of the profile
InsideRemoteRoot(remotePath) ==
  /\ Len(remotePath) > 1
  /\ Head(remotePath) = <<"r">>
  /\ \A i \in DOMAIN remotePath : remotePath[i] # ParentSegment

\* C37: every upload a timer starts targets a remote path inside the remote
\* root of the profile, the root followed by segments of the saved path, and
\* none that leaves the root through a segment "..".
C37_TimerUploadInsideRemoteRoot ==
  \A k \in DOMAIN sched.started :
    LET upload == sched.started[k]
    IN  /\ InsideRemoteRoot(upload.remote)
        /\ \E n \in 1..Len(upload.path) :
              upload.remote = << <<"r">> >> \o SubSeq(upload.path, n, Len(upload.path))

\* ---------------------------------------------------------------------------
\* Further properties of SyncManager, stated of SyncSpec
\* ---------------------------------------------------------------------------

\* the errors that end a whole operation: a precondition that fails, the
\* connection or the enumeration failing, the cancellation
WholeOperationErrors ==
  {"No active server profile", "No workspace folder open", "connect", "enumerate", "cancelled"}

BulkDone == sync.pc = "done" /\ sync.kind \in Bulk

\* the errors of the result that are of the kinds given
ErrorsOf(kinds) == {k \in DOMAIN sync.result.errors : sync.result.errors[k].error \in kinds}

\* C38: the result of uploadFolder, downloadFolder and syncAll has success =
\* false exactly when the whole operation failed; when only transfers of
\* single files failed it has success = true and the failures in errors.
C38_SuccessFalseOnlyForWholeFailure ==
  BulkDone =>
    /\ ~sync.result.success <=> ErrorsOf(WholeOperationErrors) # {}
    /\ (ErrorsOf({"transport"}) # {} /\ ErrorsOf(WholeOperationErrors) = {}) =>
         /\ sync.result.success
         /\ sync.result.errors # <<>>

\* C38 witness: a bulk operation has ended in which a transfer failed and
\* nothing else did.
C38_Witness ==
  /\ BulkDone
  /\ ErrorsOf({"transport"}) # {}
  /\ ErrorsOf(WholeOperationErrors) = {}
  /\ sync.result.success

\* C38 witness of a whole failure after a failed transfer: the operation was
\* cancelled after a file had failed.
C38_CancelledWitness ==
  /\ BulkDone
  /\ ErrorsOf({"transport"}) # {}
  /\ ErrorsOf({"cancelled"}) # {}
  /\ ~sync.result.success

\* C38 witness of an enumeration that failed
C38_EnumerationWitness ==
  /\ BulkDone
  /\ ErrorsOf({"enumerate"}) # {}
  /\ ~sync.result.success

\* ---------------------------------------------------------------------------
\* Further properties of SFTPManager, stated of ConnSpec
\* ---------------------------------------------------------------------------

\* disconnect(profileName) of caller c completes in this step
DisconnectCompletes(c) ==
  /\ callers'[c].n = callers[c].n + 1
  /\ callers'[c].op = "disconnect"
  /\ callers'[c].result = "returned"

\* C40: when disconnect(profileName) has completed, in whatever state the
\* connection of the profile was, getConnectionStatus(profileName) is
\* 'disconnected' and getClient(profileName) returns no client.
C40_DisconnectedAfterDisconnect ==
  [][\A c \in Callers, profileName \in Profiles :
       (DisconnectCompletes(c) /\ callers'[c].profile = profileName) =>
         /\ getConnectionStatus(profileName)' = "disconnected"
         /\ getClient(profileName)' = 0]_vars

(***************************************************************************)
(* Properties of ProfileManager, stated of ProfSpec.                       *)
(***************************************************************************)
\* the active name of the configuration is empty or the name of a profile of it
ActiveValid(config) ==
  config.activeProfile = "" \/ config.activeProfile \in NamesOf(config.profiles)

\* a call of ProfileManager completes in this step
ProfCompletes(op) == prof'.calls = prof.calls + 1 /\ prof'.call.op = op

\* the profiles but the ones of that name
Remaining(profiles, name) == SelectSeq(profiles, LAMBDA p : p.name # name)

C39_ListenerWitness ==
  /\ prof.call.op = "removeProfile"
  /\ prof.call.pc = "idle"
  /\ prof.call.before.activeProfile = prof.call.name
  /\ prof.config.profiles = prof.call.before.profiles
  /\ prof.config.activeProfile \in NamesOf(prof.config.profiles) \ {prof.call.name}
  /\ prof.settings = prof.config

\* C39 witness of the last profile removed: no profile is active.
C39_EmptyWitness ==
  /\ prof.call.op = "removeProfile"
  /\ prof.call.pc = "idle"
  /\ prof.call.before.activeProfile = prof.call.name
  /\ prof.config = ProfileConfig(<<>>, "")
  /\ prof.settings = prof.config

\* C39 witness of setActiveProfile with an unknown name: it threw.
C39_UnknownWitness ==
  /\ prof.call.op = "setActiveProfile"
  /\ prof.call.result = "threw"
  /\ prof.config.profiles # <<>>
  /\ prof.config.activeProfile # ""

====
